---- MODULE Spec2Model ----
(***************************************************************************)
(* A model of the OpenSBP interpreter of FabMo-Engine                       *)
(* (src/runtime/opensbp.js, src/runtime/opensbp/parser.js).                 *)
(*                                                                         *)
(* The runtime is a single-threaded JavaScript object.  One activation     *)
(* (a call of runString, or a callback fired by the driver) runs to        *)
(* completion before the next event is taken: `mode' says whether an       *)
(* activation is inside the while loop of _continue ("loop"), returning    *)
(* through the frames that called it ("unwind"), or whether no code of     *)
(* the runtime is running ("idle").  The driver (g2.js, not part of the    *)
(* sources modelled here) is modelled from its contract.                   *)
(***************************************************************************)
EXTENDS Integers, Sequences, FiniteSets, TLC

VARIABLES
    program,            \* this.program: the parsed statements
    pc,                 \* this.pc: a JavaScript value, see Num/Arr/Str/Undefined
    stack,              \* this.stack: the return addresses pushed by GOSUB
    label_index,        \* this.label_index: label name -> statement index
    current_chunk,      \* this.current_chunk: the pending G-code lines
    started,            \* this.started
    sysvar_evaluated,   \* this.sysvar_evaluated
    cmd_posx,           \* this.cmd_posx: the commanded X position
    posx,               \* this.posx: the snapshot taken by _update()
    state,              \* the machine's state, set through machine.setState
    status_posx,        \* machine.status.posx: the mirrored driver position
    expect,             \* driver: the registered one-shot state-change expectations
    requests,           \* driver: get/set calls whose callback has not fired yet
    sent,               \* driver: the segments received through runSegment
    drv,                \* driver: its motion state, "stop" or "running"
    queued,             \* driver: segments submitted and not yet completed
    goal,               \* driver: the X position the queued motion ends at
    mode,               \* "idle", "loop" or "unwind"
    frames,             \* code that runs when the current _continue returns
    root,               \* what started the current activation: "runString" or "callback"
    err,                \* the last exception thrown ("" if none)
    event,              \* what the last step of the runtime did
    start_of_the_chunk, \* this.start_of_the_chunk
    status_line,        \* machine.status.line: the mirrored line number
    chunk_begin,        \* history: pc when the first line of the chunk was emitted
    seg_begin,          \* history: chunk_begin of the segment submitted last
    sbp_settings,       \* sbp_settings: movexy_speed, cutterDia, pocketOverlap
    user_vars,          \* this.user_vars: the values assigned to &name
    status,             \* machine.status: filename, current_file, nb_lines
    fault,              \* history: the failure the driver delivered last
    continued,          \* history: continuations fired for the handler invoked last
    resumed,            \* history: calls of _continue made by "stop" handlers
    commanded_x,        \* history: X target of the statement that set it last
    PtNew,              \* transformation.js: the point object a call works on
    transformed,        \* history: the point and offsets given, the calls made
    machine_status,     \* machine.status: the local status record, key by key
    listeners,          \* the driver's listeners of 'status', in order
    runtime,            \* the runtime the machine has connected
    published,          \* the records given to machine.emit('status', ...)
    cr,                 \* the activation of the CR handler: where it stands
    runs,               \* history: the calls of runString so far
    stream              \* the streaming Parser: text written, scrap, output

vars == <<program, pc, stack, label_index, current_chunk, started,
          sysvar_evaluated, cmd_posx, posx, state, status_posx, expect,
          requests, sent, drv, queued, goal, mode, frames, root, err, event,
          start_of_the_chunk, status_line, chunk_begin, seg_begin,
          sbp_settings, user_vars, status, fault, continued, resumed,
          commanded_x,
          PtNew, transformed,
          machine_status, listeners, runtime, published, cr, runs,
          stream>>

(***************************************************************************)
(* Bounds of the model.                                                    *)
(***************************************************************************)
MaxLen == 3         \* longest program text enumerated line by line
MaxEmit == 3        \* G-code lines a run may emit before emitting is cut off
MaxRequests == 4    \* driver get/set calls that may be outstanding at once
MaxStack == 3       \* return addresses on the stack before GOSUB is cut off
MaxCoord == 1       \* largest coordinate and offset given to translate

(***************************************************************************)
(* JavaScript values held by this.pc.  The code stores numbers, the        *)
(* one-element arrays pushed by GOSUB ([k]), the strings that `[k] + 1'    *)
(* and `"k1" + 1' produce, undefined (pop of an empty array) and NaN       *)
(* (undefined + 1).  For an array [k] and for a string of digits, v is     *)
(* the number the value converts to in a comparison or as an index.        *)
(***************************************************************************)
Num(n) == [t |-> "num", v |-> n]
Arr(n) == [t |-> "arr", v |-> n]
Str(n) == [t |-> "str", v |-> n]
Undefined == [t |-> "undefined", v |-> 0]
NaN == [t |-> "nan", v |-> 0]
Null == [t |-> "null", v |-> 0]
Bool(b) == [t |-> "bool", v |-> IF b THEN 1 ELSE 0]
Dec(m) == [t |-> "dec", v |-> m]     \* the decimal number m / 1000

\* a number in thousandths
Milli(x) == IF x.t = "dec" THEN x.v ELSE 1000 * x.v

\* 60.0 * x
Times60(x) ==
    CASE x.t = "num" -> Num(60 * x.v)
      [] x.t = "dec" -> Dec(60 * x.v)
      [] OTHER -> NaN
Fn == [t |-> "fn", v |-> 0]          \* a function object; it converts to NaN

IsNumeric(p) == p.t \in {"num", "arr", "str"}

\* p += 1: number addition; an array or a string concatenates "1"
PlusOne(p) ==
    CASE p.t = "num" -> Num(p.v + 1)
      [] p.t = "arr" -> Str(p.v * 10 + 1)
      [] p.t = "str" -> Str(p.v * 10 + 1)
      [] OTHER -> NaN

\* [p + 1]: the one-element array GOSUB pushes (for a function, an array
\* holding a text, which converts to NaN as the function does)
Boxed(p) == IF p.t = "num" THEN Arr(p.v + 1) ELSE Fn

\* p >= n, with p converted to a number (undefined and NaN compare false)
GreaterEq(p, n) == IsNumeric(p) /\ p.v >= n

(***************************************************************************)
(* Expressions.  A leaf is a number literal or a system variable %(n).     *)
(***************************************************************************)
Lit(n) == [k |-> "num", n |-> n]
SysVar(n) == [k |-> "sys", n |-> n]
NoArg == [k |-> "none", n |-> 0]     \* an argument left empty: undefined
Milli300 == [k |-> "dec", n |-> 300] \* the literal 0.3
UserVar == [k |-> "user", n |-> 0]   \* the user variable &a
UserVarB == [k |-> "user", n |-> 1]  \* the user variable &b
BinOp(op, left, right) ==
    [k |-> "op", n |-> 0, op |-> op, left |-> left, right |-> right]

(***************************************************************************)
(* The parser.  parseLine turns one line of text into a statement object   *)
(* or throws a SyntaxError.                                                *)
(***************************************************************************)
SyntaxError == [type |-> "SyntaxError"]

Cmd(name, args) == [type |-> "cmd", cmd |-> name, args |-> args]

\* &name = expr
Assign(name, expr) == [type |-> "assign", var |-> name, expr |-> expr]

parseLine(line) ==
    CASE line = "MX,1"    -> Cmd("MX", <<Lit(1)>>)
      [] line = "MX,2"    -> Cmd("MX", <<Lit(2)>>)
      [] line = "MX,%(1)" -> Cmd("MX", <<SysVar(1)>>)
      [] line = "MX,%(9)" -> Cmd("MX", <<SysVar(9)>>)
      [] line = "MX,&a"   -> Cmd("MX", <<UserVar>>)
      [] line = "MX,&a+&b" -> Cmd("MX", <<BinOp("+", UserVar, UserVarB)>>)
      [] line = "&a=2"    -> Assign("&a", Lit(2))
      [] line = "&b=3"    -> Assign("&b", Lit(3))
      [] line = "&a=&b"   -> Assign("&a", UserVarB)
      [] line = "&a=2>1"  -> Assign("&a", BinOp(">", Lit(2), Lit(1)))
      [] line = "&a=%(9)" -> Assign("&a", SysVar(9))
      [] line = "MX,1^2"  -> Cmd("MX", <<BinOp("^", Lit(1), Lit(2))>>)
      [] line = "MX,1+%(1)" -> Cmd("MX", <<BinOp("+", Lit(1), SysVar(1))>>)
      [] line = "MS,2"    -> Cmd("MS", <<Lit(2)>>)
      [] line = "M6,1"    -> Cmd("M6", <<Lit(1)>>)
      [] line = "MH"      -> Cmd("MH", <<>>)
      [] line = "VS,5,3"  -> Cmd("VS", <<Lit(5), Lit(3)>>)
      [] line = "VS,,3"   -> Cmd("VS", <<NoArg, Lit(3)>>)
      [] line = "VS,5,,,,,2" ->
            Cmd("VS", <<Lit(5), NoArg, NoArg, NoArg, NoArg, Lit(2)>>)
      [] line = "VC,1,,,,,50" ->
            Cmd("VC", <<Lit(1), NoArg, NoArg, NoArg, NoArg, Lit(50)>>)
      [] line = "CG,,0,0,0.3,0,,1,0,1,,,2" ->
            Cmd("CG", <<NoArg, Lit(0), Lit(0), Milli300, Lit(0), NoArg, Lit(1),
                        Lit(0), Lit(1), NoArg, NoArg, Lit(2)>>)
      [] line = "CG,,1,0,1,0" ->
            Cmd("CG", <<NoArg, Lit(1), Lit(0), Lit(1), Lit(0)>>)
      [] line = "CG,,1,0,1,0,,1,-1,2,,,3" ->
            Cmd("CG", <<NoArg, Lit(1), Lit(0), Lit(1), Lit(0), NoArg, Lit(1),
                        Lit(-1), Lit(2), NoArg, NoArg, Lit(3)>>)
      [] line = "CG,,1,0,1,0,,1,-1,2,,,4" ->
            Cmd("CG", <<NoArg, Lit(1), Lit(0), Lit(1), Lit(0), NoArg, Lit(1),
                        Lit(-1), Lit(2), NoArg, NoArg, Lit(4)>>)
      [] line = "ZX"      -> Cmd("ZX", <<>>)
      [] line = "ZY"      -> Cmd("ZY", <<>>)
      [] line = "Z2"      -> Cmd("Z2", <<>>)
      [] line = "Z3"      -> Cmd("Z3", <<>>)
      [] line = "ZT"      -> Cmd("ZT", <<>>)
      [] line = "EP,1"    -> Cmd("EP", <<Lit(1)>>)
      [] line = "VA,,,1"  -> Cmd("VA", <<NoArg, NoArg, Lit(1)>>)
      [] line = "VU"      -> Cmd("VU", <<>>)
      [] line = "VU,1"    -> Cmd("VU", <<Lit(1)>>)
      [] line = "VU,1,1"  -> Cmd("VU", <<Lit(1), Lit(1)>>)
      [] line = "XX"      -> Cmd("XX", <<>>)
      [] line = "XX,%(1)" -> Cmd("XX", <<SysVar(1)>>)
      [] line = "GOTO A"  -> [type |-> "goto", label |-> "A"]
      [] line = "GOTO B"  -> [type |-> "goto", label |-> "B"]
      [] line = "GOSUB A" -> [type |-> "gosub", label |-> "A"]
      [] line = "RETURN"  -> [type |-> "return"]
      [] line = "END"     -> [type |-> "end"]
      [] line = "A:"      -> [type |-> "label", value |-> "A"]
      [] line = "undefined:" -> [type |-> "label", value |-> "undefined"]
      [] line = "toString:" -> [type |-> "label", value |-> "toString"]
      [] line = "GOTO toString" -> [type |-> "goto", label |-> "toString"]
      [] line = "IF 1 THEN IF 1 THEN GOTO B" ->
            [type |-> "cond", cmp |-> Lit(1), stmt |->
                [type |-> "cond", cmp |-> Lit(1), stmt |->
                    [type |-> "goto", label |-> "B"]]]
      [] line = "IF 1 THEN MX,1" ->
            [type |-> "cond", cmp |-> Lit(1), stmt |-> Cmd("MX", <<Lit(1)>>)]
      [] line = "IF 1 THEN GOTO A" ->
            [type |-> "cond", cmp |-> Lit(1), stmt |-> [type |-> "goto", label |-> "A"]]
      [] line = "IF 0 THEN GOTO A" ->
            [type |-> "cond", cmp |-> Lit(0), stmt |-> [type |-> "goto", label |-> "A"]]
      [] line = "IF 1 THEN ZX" ->
            [type |-> "cond", cmp |-> Lit(1), stmt |-> Cmd("ZX", <<>>)]
      [] line = "PAUSE 1" -> [type |-> "pause", expr |-> Lit(1)]
      [] line = "PAUSE"   -> [type |-> "pause"]
      [] line = "'note"   -> [type |-> "comment"]
      [] OTHER            -> SyntaxError

\* parse(data): every line is parsed in order; the first that fails throws
parse(lines) == [i \in 1..Len(lines) |-> parseLine(lines[i])]

ParseThrows(lines) == \E i \in 1..Len(lines) : parseLine(lines[i]) = SyntaxError

(***************************************************************************)
(* Program analysis.                                                       *)
(***************************************************************************)
NoLabels == [l \in {} |-> 0]

\* the property names every object literal inherits from Object.prototype
\* that a label name can spell
ObjectPrototype ==
    {"constructor", "toString", "valueOf", "hasOwnProperty", "isPrototypeOf",
     "propertyIsEnumerable", "toLocaleString"}

\* key in obj: an own property, or one found on the prototype chain
In(key, obj) == key \in DOMAIN obj \/ key \in ObjectPrototype

\* obj[key], for a key that is `in' obj: the index, or the inherited function
Get(obj, key) == IF key \in DOMAIN obj THEN Num(obj[key]) ELSE Fn

\* _analyzeLabels from statement i on: the table built so far, and what was thrown
RECURSIVE LabelPass(_, _, _)
LabelPass(prog, i, index) ==
    IF i > Len(prog) THEN [label_index |-> index, thrown |-> ""]
    ELSE IF prog[i].type = "label"
         THEN IF In(prog[i].value, index)
              THEN [label_index |-> index, thrown |-> "Duplicate label."]
              ELSE LabelPass(prog, i + 1, index @@ (prog[i].value :> (i - 1)))
         ELSE LabelPass(prog, i + 1, index)

_analyzeLabels(prog) == LabelPass(prog, 1, NoLabels)

\* line.label as a property key: a statement without a label gives "undefined"
LabelKey(line) == IF "label" \in DOMAIN line THEN line.label ELSE "undefined"

\* _analyzeGOTOs: what is thrown ("" if every checked label is in the table)
_analyzeGOTOs(prog, index) ==
    LET Checked(i) == IF prog[i].type = "cond" THEN prog[i].stmt ELSE prog[i]
        Bad == {i \in 1..Len(prog) :
                   /\ prog[i].type \in {"cond", "goto", "gosub"}
                   /\ ~In(LabelKey(Checked(i)), index)}
    IN  IF Bad = {} THEN "" ELSE "Undefined label"

(***************************************************************************)
(* The command handlers known to the model.  HandlerLength is the number   *)
(* of declared parameters of SBPRuntime.prototype[name] (f.length), 0 when *)
(* the runtime has no such function.                                       *)
(***************************************************************************)
HandlerLength(name) ==
    CASE name \in {"ZX", "ZY", "ZZ", "ZA", "ZB", "ZC", "Z2", "VA", "VU"} -> 2
      [] name \in {"MX", "M6", "MH", "Z3", "Z4", "Z5", "Z6", "ZT", "EP",
                   "MS", "VS", "VC", "CG"} -> 1
      [] OTHER -> 0

\* sb3_commands[name].params.length; 0 as well for a command it does not list
ParamCount(name) ==
    CASE name \in {"MX", "EP"} -> 1
      [] name = "VU" -> 2
      [] name = "VA" -> 3
      [] name = "MS" -> 5
      [] name = "M6" -> 6
      [] name = "VS" -> 10
      [] name = "VC" -> 12
      [] name = "CG" -> 14
      [] OTHER -> 0

\* _breaksStack(cmd), for a statement object
_breaksStack(cmd) ==
    IF cmd.type = "cmd" THEN HandlerLength(cmd.cmd) > 1 ELSE FALSE

\* _exprBreaksStack(expr): a leaf that starts with '%', in either operand
RECURSIVE _exprBreaksStack(_)
_exprBreaksStack(expr) ==
    IF expr.k = "op"
    THEN _exprBreaksStack(expr.left) \/ _exprBreaksStack(expr.right)
    ELSE expr.k = "sys"

(***************************************************************************)
(* Expression evaluation: the value, whether a system variable was read    *)
(* (this.sysvar_evaluated = true), and what was thrown ("" if nothing).    *)
(***************************************************************************)
\* %(n): the X location for 1, the other locations (axes the model never
\* moves) for 2..5 and 144, null for a selector the switch does not list
evaluateSystemVariable(n) ==
    CASE n = 1 -> status_posx
      [] n \in {2, 3, 4, 5, 144} -> Num(0)
      [] n \in {71, 72} -> sbp_settings.movexy_speed
      [] OTHER -> Null

\* the name of a user variable leaf: &a or &b
VarName(expr) == IF expr.n = 0 THEN "&a" ELSE "&b"

\* parseFloat(v): a number stays, anything else that is stored gives NaN
parseFloat(v) == IF v.t \in {"num", "dec"} THEN v ELSE NaN

\* &a: the stored value, null for a variable that was never assigned
evaluateUserVariable(v) == IF v \in DOMAIN user_vars THEN user_vars[v] ELSE Null

Value(v, sys) == [value |-> v, sys |-> sys, thrown |-> ""]

\* _eval_value: the branches for null have no return statement
_eval_value(expr) ==
    CASE expr.k = "num"  -> Value(Num(expr.n), FALSE)
      [] expr.k = "dec"  -> Value(Dec(expr.n), FALSE)
      [] expr.k = "sys"  ->
            IF evaluateSystemVariable(expr.n) = Null
            THEN Value(Undefined, FALSE)
            ELSE Value(evaluateSystemVariable(expr.n), TRUE)
      [] expr.k = "user" ->
            \* undefined is stored: taken for no user variable, parseFloat("&a")
            IF evaluateUserVariable(VarName(expr)) = Null
            THEN Value(Undefined, FALSE)
            ELSE Value(parseFloat(evaluateUserVariable(VarName(expr))), FALSE)

\* left + right on numbers; NaN when an operand is undefined or NaN
Plus(l, r) ==
    IF l.t \in {"num", "bool"} /\ r.t \in {"num", "bool"}
    THEN Num(l.v + r.v) ELSE NaN

\* left > right: false when an operand converts to NaN
Greater(l, r) ==
    Bool(l.t \in {"num", "bool"} /\ r.t \in {"num", "bool"} /\ l.v > r.v)

RECURSIVE _eval(_)
_eval(expr) ==
    CASE expr.k = "none" -> Value(Undefined, FALSE)
      [] expr.k = "op" ->
            IF expr.op \in {"+", ">"}
            THEN LET l == _eval(expr.left)
                     r == _eval(expr.right)
                 IN  IF l.thrown # "" THEN l
                     ELSE IF r.thrown # "" THEN [r EXCEPT !.sys = @ \/ l.sys]
                     ELSE IF expr.op = "+"
                     THEN Value(Plus(l.value, r.value), l.sys \/ r.sys)
                     ELSE Value(Greater(l.value, r.value), l.sys \/ r.sys)
            ELSE [Value(Undefined, FALSE) EXCEPT !.thrown = "Unhandled operation"]
      [] OTHER -> _eval_value(expr)

Truthy(v) == v.t \in {"arr", "str"} \/ (v.t \in {"num", "bool"} /\ v.v # 0)

\* _evaluateArguments: pad to the declared parameters, then evaluate each
_evaluateArguments(command, args) ==
    [i \in 1..ParamCount(command) |->
        IF i <= Len(args) THEN _eval(args[i]) ELSE _eval(NoArg)]

(***************************************************************************)
(* G-code lines and driver requests.                                       *)
(***************************************************************************)
Gcode(op, arg) == [op |-> op, arg |-> arg]

\* a driver.get / driver.set whose callback `k' has not been called yet;
\* cont is the continuation the handler was given ("continue" or "undefined")
Request(op, key, k, cont) == [op |-> op, key |-> key, k |-> k, cont |-> cont]

\* G-code lines handed to the driver so far
RECURSIVE Lines(_)
Lines(segments) ==
    IF segments = <<>> THEN <<>> ELSE Head(segments) \o Lines(Tail(segments))

\* the X position at which a segment ends
LastX(chunk, before) ==
    LET moves == SelectSeq(chunk, LAMBDA l : l.op \in {"G0 X", "G1 X", "G2 X", "G3 X"})
    IN  IF moves = <<>> THEN before ELSE moves[Len(moves)].arg

(***************************************************************************)
(* _execute(command, callback).  The result holds the fields of the        *)
(* runtime the call may change, what it threw ("" if nothing) and the      *)
(* breaking handler it invoked ("" if none).                               *)
(***************************************************************************)
Unchanged ==
    [pc |-> pc, stack |-> stack, chunk |-> current_chunk,
     sysvar |-> sysvar_evaluated, cmd_posx |-> cmd_posx, posx |-> posx,
     requests |-> requests, settings |-> sbp_settings, thrown |-> "",
     handler |-> "", user_vars |-> user_vars]

\* a G-code line that ends in " F" + f
GcodeF(op, arg, f) == [op |-> op, arg |-> arg, f |-> f]

\* args[i], the i-th of the evaluated arguments counted from 0
Arg(a, i) == a[i + 1].value

\* what MS assigns to sbp_settings.movexy_speed
MS(a) ==
    [sbp_settings EXCEPT
        !.movexy_speed = IF Arg(a, 0) # Undefined THEN Arg(a, 0) ELSE @]

\* VS with the assignment of args[0] left out
VS_KeepsSpeed(a) == sbp_settings

\* what VS assigns to sbp_settings.movexy_speed
VS(a) ==
    [sbp_settings EXCEPT
        !.movexy_speed = IF Arg(a, 0) # Undefined THEN Arg(a, 0) ELSE @]

\* VS: the jog speeds are passed on through this.command, which SBPRuntime
\* does not define
VS_Calls(a) == \E i \in 5..9 : Arg(a, i) # Undefined

\* what VC assigns to sbp_settings
VC(a) ==
    [sbp_settings EXCEPT
        !.cutterDia = IF Arg(a, 0) # Undefined THEN Arg(a, 0) ELSE @,
        !.pocketOverlap = IF Arg(a, 5) # Undefined THEN Arg(a, 5) ELSE @]

\* the assignments at the head of CG
CG_Settings ==
    [sbp_settings EXCEPT !.cutterDia = Dec(250), !.pocketOverlap = Num(10)]

\* cutterDia * ((100 - pocketOverlap) / 100), in thousandths
StepOver(settings) ==
    (Milli(settings.cutterDia) * (100 - settings.pocketOverlap.v)) \div 100

\* the passes of the pocket from pass j on, for a centre on the X axis
\* (PocketAngle = 0): radius and X positions in thousandths
RECURSIVE PocketPasses(_, _, _, _, _)
PocketPasses(j, step, radius, startX, dir) ==
    IF j * step > radius THEN <<>>
    ELSE (IF j > 0 THEN <<GcodeF("G1 X", Dec(startX + j * step),
                                 sbp_settings.movexy_speed)>>
                   ELSE <<>>)
         \o <<GcodeF(dir, Dec(startX + j * step), sbp_settings.movexy_speed)>>
         \o PocketPasses(j + 1, step, radius, startX, dir)

\* args[i] !== undefined ? args[i] : d
OrElse(v, d) == IF v # Undefined THEN v ELSE d

\* an arc of CG that carries a Z word
Spiral(dir, endX, z) ==
    [op |-> dir, arg |-> endX, f |-> sbp_settings.movexy_speed, z |-> z]

\* the loop of CG from repetition i on, for an option other than 2, begun at
\* depth currentZ: the lines it emits and the depth it ends at
RECURSIVE ArcPasses(_, _, _, _)
ArcPasses(i, a, currentZ, dir) ==
    LET Plg == OrElse(Arg(a, 7), Num(0)).v
        reps == OrElse(Arg(a, 8), Num(1)).v
        optCG == OrElse(Arg(a, 11), Num(0)).v
        plunged == IF Plg # 0 /\ optCG < 3 THEN currentZ + Plg ELSE currentZ
        spiral == Plg # 0 /\ optCG = 3
        ended == IF spiral THEN plunged + Plg ELSE plunged
    IN  IF i >= reps THEN [lines |-> <<>>, currentZ |-> currentZ]
        ELSE LET rest == ArcPasses(i + 1, a, ended, dir)
             IN  [lines |->
                     (IF plunged # currentZ
                      THEN <<Gcode("G1 Z", Num(plunged))>> ELSE <<>>)
                     \o <<IF spiral THEN Spiral(dir, Arg(a, 1), Num(ended))
                          ELSE GcodeF(dir, Arg(a, 1),
                                      sbp_settings.movexy_speed)>>
                     \o (IF i + 1 < reps /\ Arg(a, 1) # cmd_posx
                         THEN <<Gcode("G0 Z", Dec(250)),
                                Gcode("G0 X", cmd_posx)>>
                         ELSE <<>>)
                     \o rest.lines,
                  currentZ |-> rest.currentZ]

\* the bottom circle of option 4, at depth currentZ
BottomCircle(a, currentZ, dir) ==
    (IF Arg(a, 1) # cmd_posx
     THEN <<Gcode("G0 Z", Dec(250)), Gcode("G0 X", cmd_posx),
            Gcode("G1 Z", Num(currentZ))>>
     ELSE <<>>)
    \o <<GcodeF(dir, Arg(a, 1), sbp_settings.movexy_speed)>>

\* the lines CG emits with the settings it works with, begun at Z = 0 (the
\* cmd_posz of the constructor) without plunge from zero and with pull-up
CG_Lines(a, settings) ==
    LET dir == IF Arg(a, 6) = Undefined \/ Arg(a, 6) = Num(1)
               THEN "G2 X" ELSE "G3 X"
        passes == ArcPasses(0, a, 0, dir)
    IN  IF Arg(a, 11) = Num(2)
        THEN PocketPasses(0, StepOver(settings), Milli(Arg(a, 3)),
                          Milli(cmd_posx), dir)
             \o <<Gcode("G0 Z", Dec(250)), Gcode("G0 X", cmd_posx),
                  Gcode("G1 Z", Num(0))>>
        ELSE passes.lines
             \o (IF Arg(a, 11) = Num(4)
                 THEN BottomCircle(a, passes.currentZ, dir) ELSE <<>>)
             \o (IF passes.currentZ # 0
                 THEN <<Gcode("G0 Z", Num(0))>> ELSE <<>>)

\* a handler with one parameter: f(args)
Handler(name, a) ==
    CASE name = "MX" ->
            [Unchanged EXCEPT
                !.chunk = Append(@, GcodeF("G1 X", Arg(a, 0),
                                           Times60(sbp_settings.movexy_speed))),
                !.cmd_posx = Arg(a, 0)]
      [] name = "M6" ->
            \* outStr + "F" + sbp_settings.movexy_speed
            IF Arg(a, 0) # Undefined
            THEN [Unchanged EXCEPT
                     !.chunk = Append(@, GcodeF("G1 X", Arg(a, 0),
                                                sbp_settings.movexy_speed)),
                     !.cmd_posx = Arg(a, 0)]
            ELSE [Unchanged EXCEPT
                     !.chunk = Append(@, GcodeF("G1", Undefined,
                                                sbp_settings.movexy_speed))]
      [] name = "MH" ->
            \* "G1X0Y0" + " F" + sbp_settings.movexy_speed
            [Unchanged EXCEPT
                !.chunk = Append(@, GcodeF("G1 X", Num(0),
                                           sbp_settings.movexy_speed)),
                !.cmd_posx = Num(0)]
      [] name = "MS" -> [Unchanged EXCEPT !.settings = MS(a)]
      [] name = "VS" ->
            [Unchanged EXCEPT
                !.settings = VS(a),
                !.thrown = IF VS_Calls(a)
                           THEN "TypeError: this.command is not a function"
                           ELSE ""]
      [] name = "VC" -> [Unchanged EXCEPT !.settings = VC(a)]
      [] name = "CG" ->
            [Unchanged EXCEPT
                !.settings = CG_Settings,
                !.chunk = @ \o CG_Lines(a, CG_Settings),
                !.cmd_posx = Arg(a, 1)]
      [] name = "EP" ->
            [Unchanged EXCEPT !.chunk = Append(@, Gcode("G38.2 Z", a[1].value))]
      [] name = "ZT" ->
            [Unchanged EXCEPT !.chunk = Append(@, Gcode("G54", Undefined))]
      [] name \in {"Z3", "Z4", "Z5", "Z6"} ->
            [Unchanged EXCEPT !.chunk = Append(@, Gcode("G10 L2 P2 X", posx)),
                              !.cmd_posx = Num(0), !.posx = Num(0)]

\* a handler with two parameters: f(args, callback) issues its first driver calls
BreakingHandler(name, a, cont) ==
    CASE name = "ZX" ->
            [Unchanged EXCEPT !.requests = Append(@, Request("get", "mpox", "ZX.get", cont)),
                              !.handler = name]
      [] name \in {"ZY", "ZZ", "ZA", "ZB", "ZC"} ->
            [Unchanged EXCEPT !.requests = Append(@, Request("get", "mpo", "ZY.get", cont)),
                              !.handler = name]
      [] name = "Z2" ->
            [Unchanged EXCEPT !.requests = Append(@, Request("get", "mpox", "Z2.get1", cont)),
                              !.handler = name]
      [] name = "VA" ->
            \* zoffset = -args[2] is a number or NaN, never undefined
            [Unchanged EXCEPT !.requests = Append(@, Request("get", "g55z", "VA.get", cont)),
                              !.handler = name]
      [] name = "VU" ->
            LET axes == <<Request("get", "ma", "VU.axes", cont)>>
                m1 == IF a[1].value # Undefined
                      THEN <<Request("get", "1sa", "VU.get", cont)>> ELSE <<>>
                m2 == IF a[2].value # Undefined
                      THEN <<Request("get", "2sa", "VU.get", cont)>> ELSE <<>>
            IN  [Unchanged EXCEPT !.requests = @ \o axes \o m1 \o m2,
                                  !.handler = name]

\* _unhandledCommand that raises an error instead of logging
_unhandledCommand_Throws(command) ==
    [Unchanged EXCEPT !.thrown = "Unhandled Command"]

\* _unhandledCommand(command): log.warn, and nothing else
_unhandledCommand(command) == Unchanged

_executeCommand(command, cont) ==
    IF HandlerLength(command.cmd) > 0
    THEN LET a == _evaluateArguments(command.cmd, command.args)
             sys == \E i \in DOMAIN a : a[i].sys /\ a[i].value # Undefined
             bad == {i \in DOMAIN a : a[i].thrown # ""}
         IN  IF bad # {}
             THEN [Unchanged EXCEPT
                      !.thrown = "Unhandled operation",
                      !.sysvar = @ \/ \E i \in DOMAIN a :
                                          /\ a[i].sys
                                          /\ \A j \in bad : i < j]
             ELSE IF HandlerLength(command.cmd) > 1
             THEN [BreakingHandler(command.cmd, a, cont) EXCEPT
                       !.sysvar = @ \/ sys]
             ELSE IF Handler(command.cmd, a).thrown # ""
             THEN [Handler(command.cmd, a) EXCEPT !.sysvar = @ \/ sys]
             ELSE [Handler(command.cmd, a) EXCEPT
                       !.sysvar = @ \/ sys, !.pc = PlusOne(@)]
    ELSE [_unhandledCommand(command) EXCEPT !.pc = PlusOne(@)]

\* a JavaScript array in a condition: every object, an empty array too, is truthy
ArrayIsTruthy(a) == TRUE

\* a.pop(): the last element, undefined for an empty array
Top(a) == IF a = <<>> THEN Undefined ELSE a[Len(a)]
\* a.pop() that reads the last element and leaves it on the array
Pop_KeepsTop(a) == a

Pop(a) == IF a = <<>> THEN a ELSE SubSeq(a, 1, Len(a) - 1)

\* obj[key] = value
Store(obj, key, value) ==
    [n \in DOMAIN obj \cup {key} |-> IF n = key THEN value ELSE obj[n]]

RECURSIVE _execute(_, _)
_execute(command, cont) ==
    CASE command.type = "cmd" -> _executeCommand(command, cont)
      [] command.type = "return" ->
            IF ArrayIsTruthy(stack)
            THEN [Unchanged EXCEPT !.pc = Top(stack), !.stack = Pop(stack)]
            ELSE [Unchanged EXCEPT
                     !.thrown = "Runtime Error: Return with no GOSUB"]
      [] command.type = "end" ->
            [Unchanged EXCEPT !.pc = Num(Len(program))]
      [] command.type = "goto" ->
            IF In(command.label, label_index)
            THEN [Unchanged EXCEPT !.pc = Get(label_index, command.label)]
            ELSE [Unchanged EXCEPT !.thrown = "Runtime Error: Unknown Label"]
      [] command.type = "gosub" ->
            \* pc is assigned first, then [pc + 1] is pushed
            IF In(command.label, label_index)
            THEN [Unchanged EXCEPT
                     !.pc = Get(label_index, command.label),
                     !.stack = Append(@, Boxed(Get(label_index, command.label)))]
            ELSE [Unchanged EXCEPT !.thrown = "Runtime Error: Unknown Label"]
      [] command.type = "assign" ->
            \* this.user_vars[command.var] = this._eval(command.expr)
            LET e == _eval(command.expr)
            IN  IF e.thrown # ""
                THEN [Unchanged EXCEPT !.thrown = e.thrown,
                                       !.sysvar = @ \/ e.sys]
                ELSE [Unchanged EXCEPT
                         !.user_vars = Store(@, command.var, e.value),
                         !.pc = PlusOne(@),
                         !.sysvar = @ \/ e.sys]
      [] command.type = "cond" ->
            LET test == _eval(command.cmp)
            IN  IF test.thrown # ""
                THEN [Unchanged EXCEPT !.thrown = test.thrown,
                                       !.sysvar = @ \/ test.sys]
                ELSE IF Truthy(test.value)
                THEN [_execute(command.stmt, cont) EXCEPT !.sysvar = @ \/ test.sys]
                ELSE [Unchanged EXCEPT !.pc = PlusOne(@), !.sysvar = @ \/ test.sys]
      [] command.type = "pause" ->
            IF "expr" \in DOMAIN command
            THEN LET e == _eval(command.expr)
                 IN  IF e.thrown # ""
                     THEN [Unchanged EXCEPT !.pc = PlusOne(@),
                                            !.thrown = e.thrown,
                                            !.sysvar = @ \/ e.sys]
                     ELSE
                     [Unchanged EXCEPT
                         !.pc = PlusOne(@),
                         !.chunk = Append(@, Gcode("G4 P", e.value)),
                         !.sysvar = @ \/ e.sys]
            ELSE [Unchanged EXCEPT !.pc = PlusOne(@)]
      [] OTHER ->        \* label, comment, anything else
            [Unchanged EXCEPT !.pc = PlusOne(@)]

(***************************************************************************)
(* The state after `new SBPRuntime()' and connect(machine).                *)
(***************************************************************************)
\* the settings of sbp_settings the model holds, as the module is loaded
DefaultSettings ==
    [movexy_speed |-> Num(1), cutterDia |-> Dec(250), pocketOverlap |-> Num(10)]

\* machine.status with nothing loaded
NoFile == [filename |-> Null, current_file |-> Null, nb_lines |-> Null]

\* what the machine has put into status.filename and status.current_file
\* when it hands a text to the runtime: the name of a file, or nothing
FileNames == {Null, Str("job.sbp")}

Constructed ==
    /\ program = <<>>
    /\ pc = Num(0)
    /\ stack = <<>>
    /\ label_index = NoLabels
    /\ current_chunk = <<>>
    /\ started = FALSE
    /\ sysvar_evaluated = FALSE
    /\ cmd_posx = Num(0)
    /\ posx = Num(0)
    /\ state = "idle"
    /\ status_posx = Num(0)
    /\ expect = <<>>
    /\ requests = <<>>
    /\ sent = <<>>
    /\ drv = "stop"
    /\ queued = 0
    /\ goal = Num(0)
    /\ mode = "idle"
    /\ frames = <<>>
    /\ root = ""
    /\ err = ""
    /\ event = "new"
    /\ start_of_the_chunk = 0
    /\ status_line = Null
    /\ chunk_begin = Num(0)
    /\ seg_begin = Num(0)
    /\ sbp_settings = DefaultSettings
    /\ user_vars = [v \in {} |-> Undefined]
    /\ status = NoFile
    /\ fault = ""
    /\ continued = 0
    /\ resumed = 0
    /\ commanded_x = Num(0)
    /\ runs = 0

\* a point object {X, Y, Z}; a coordinate that is not present is undefined
Point(x, y, z) == [X |-> x, Y |-> y, Z |-> z]

\* CR has not been called
NoCall ==
    [phase |-> "idle", lenX |-> 0, lenY |-> 0, optCR |-> 0, reps |-> 0,
     spiralPlg |-> 0, steps |-> Num(1), i |-> 0, j |-> 0, k |-> 0, pass |-> 0,
     cnt |-> 0, passes |-> 0, stepOver |-> 0]

\* new Parser(): this.scrap = "", and nothing written or pushed yet
NoStream ==
    [text |-> <<>>, rest |-> <<>>, scrap |-> <<>>, out |-> <<>>,
     phase |-> "open", failed |-> FALSE]

\* no runtime has been connected to the machine: its status record holds the
\* position the driver reported last, and nobody listens to the driver
Unconnected ==
    /\ machine_status = [key \in {"posx"} |-> Num(0)]
    /\ listeners = <<>>
    /\ runtime = "none"
    /\ published = <<>>
    /\ cr = NoCall

mirrorVars == <<machine_status, listeners, runtime, published>>

\* no call of the transformation library has been made
Init ==
    /\ Constructed
    /\ PtNew = Point(Undefined, Undefined, Undefined)
    /\ transformed = [P |-> PtNew, MDist |-> <<0, 0, 0>>, calls |-> 0]
    /\ Unconnected
    /\ stream = NoStream

\* what no step of the interpreter writes
libVars == <<PtNew, transformed, mirrorVars, cr, stream>>

\* the fields of the line mirror, and the settings only a handler writes
lineVars == <<start_of_the_chunk, status_line>>
keptVars == <<lineVars, sbp_settings, user_vars, libVars, status, fault>>

\* the statement this.program[this.pc]; undefined when pc is no index of the program
HasLine == IsNumeric(pc) /\ pc.v >= 0 /\ pc.v < Len(program)
line == program[pc.v + 1]

\* the statement gives this.cmd_posx a value: a move along X, a zero command
\* that is no stack break, also as the then-branch of a Cond that holds
RECURSIVE WritesX(_)
WritesX(stmt) ==
    IF stmt.type = "cond"
    THEN Truthy(_eval(stmt.cmp).value) /\ WritesX(stmt.stmt)
    ELSE /\ stmt.type = "cmd"
         /\ stmt.cmd \in {"MX", "M6", "MH", "CG", "Z3", "Z4", "Z5", "Z6"}

\* the history variables follow emit_gcode and _dispatch: the chunk begins at
\* the statement that emits into the empty chunk, a flush submits that chunk.
\* A handler is invoked with no continuation fired yet, and the last callback
\* of a chain of driver calls fires the continuation.  A handler registered
\* for "stop" calls _continue when the driver stops, the first of them at
\* once and the others as the call before them returns.  The X target is
\* the one of the last statement executed that moved or zeroed X: what a
\* move was given, 0 when the last callback of ZX or Z2 has fired
History ==
    /\ chunk_begin' = IF current_chunk = <<>> /\ current_chunk' # <<>>
                      THEN pc ELSE chunk_begin
    /\ seg_begin' = IF sent' # sent THEN chunk_begin ELSE seg_begin
    /\ continued' = IF event' = "handler" THEN 0
                    ELSE IF /\ mode = "idle"
                            /\ Len(requests') < Len(requests)
                            /\ Head(requests).k # "VU.axes"
                    THEN continued + 1
                    ELSE continued
    /\ resumed' = IF /\ event' = "callback"
                     /\ \/ drv = "running" /\ drv' = "stop"
                        \/ mode = "unwind"
                  THEN resumed + 1 ELSE resumed
    /\ commanded_x' =
          IF /\ mode = "loop" /\ event' = "exec" /\ HasLine
             /\ WritesX(line)
          THEN _execute(line, "undefined").cmd_posx
          ELSE IF /\ mode = "idle" /\ requests # <<>>
                  /\ Head(requests).k \in {"ZX.set", "Z2.get2"}
                  /\ Len(requests') < Len(requests)
          THEN Num(0)
          ELSE commanded_x
    /\ runs' = IF event' \in {"run", "parse error", "analysis error"}
               THEN runs + 1 ELSE runs

runtimeVars == <<program, pc, stack, label_index, current_chunk, started,
                 sysvar_evaluated, cmd_posx, posx>>
driverVars == <<expect, requests, sent, drv, queued, goal>>

\* the G-code lines emitted so far in the model: emitting is cut off at MaxEmit
Emitted(chunk) == Len(Lines(sent)) + Len(chunk)

\* leaving the while loop of _continue: back to the frame that called it
Leave(fr) == IF fr = <<>> THEN "idle" ELSE "unwind"

\* _continue() called with the frames `fr' waiting for it to return:
\* _update() takes the snapshot, and the loop is entered only when started
Enter(fr) ==
    /\ posx' = status_posx'
    /\ frames' = fr
    /\ mode' = IF started THEN "loop" ELSE Leave(fr)

\* an exception leaves every frame of the activation
Throw(message) ==
    /\ err' = message
    /\ mode' = "idle"
    /\ frames' = <<>>
    /\ event' = "throw"

(***************************************************************************)
(* runString(s)                                                            *)
(***************************************************************************)
RunString(s) ==
    /\ mode = "idle"
    /\ root' = "runString"
    /\ UNCHANGED <<lineVars, sbp_settings, user_vars, libVars, fault>>
    /\ \E f \in FileNames :
          \* nb_lines is s.split('\n').length - 1 until parse has returned,
          \* and then (this.program.length).length - 1
          status' = [filename |-> f, current_file |-> f,
                     nb_lines |-> IF ParseThrows(s) THEN Num(Len(s) - 1)
                                  ELSE NaN]
    /\ UNCHANGED <<pc, stack, current_chunk, sysvar_evaluated, cmd_posx,
                   status_posx, driverVars, frames>>
    /\ IF ParseThrows(s)
       THEN /\ err' = "SyntaxError"
            /\ event' = "parse error"
            /\ UNCHANGED <<program, label_index, started, posx, state, mode>>
       ELSE LET prog == parse(s)
                labels == _analyzeLabels(prog)
                gotos == _analyzeGOTOs(prog, labels.label_index)
            IN  /\ program' = prog
                /\ label_index' = labels.label_index
                /\ IF labels.thrown # "" \/ gotos # ""
                   THEN /\ err' = IF labels.thrown # "" THEN labels.thrown ELSE gotos
                        /\ event' = "analysis error"
                        /\ UNCHANGED <<started, posx, state, mode>>
                   ELSE \* _run()
                        /\ started' = TRUE
                        /\ state' = "running"
                        /\ posx' = status_posx
                        /\ mode' = "loop"
                        /\ event' = "run"
                        /\ UNCHANGED err
    /\ History

(***************************************************************************)
(* _dispatch(callback) with a non-empty chunk: the start expectation is    *)
(* registered, the segment is submitted and the chunk is emptied.          *)
(***************************************************************************)
\* _dispatch with the assignment `this.current_chunk = []' left out
_dispatch_KeepsChunk ==
    /\ expect' = Append(expect, "start")
    /\ sent' = Append(sent, current_chunk)
    /\ queued' = queued + 1
    /\ goal' = LastX(current_chunk, goal)
    /\ current_chunk' = current_chunk
    /\ UNCHANGED requests

\* _dispatch with the call of expectStateChange left out
_dispatch_NoExpectation ==
    /\ expect' = expect
    /\ sent' = Append(sent, current_chunk)
    /\ queued' = queued + 1
    /\ goal' = LastX(current_chunk, goal)
    /\ current_chunk' = <<>>
    /\ UNCHANGED requests

_dispatch ==
    /\ expect' = Append(expect, "start")
    /\ sent' = Append(sent, current_chunk)
    /\ queued' = queued + 1
    /\ goal' = LastX(current_chunk, goal)
    /\ current_chunk' = <<>>
    /\ UNCHANGED requests

\* init(): the reset done by _end()
init ==
    /\ pc' = Num(0)
    /\ stack' = <<>>
    /\ label_index' = NoLabels
    /\ current_chunk' = <<>>
    /\ started' = FALSE
    /\ sysvar_evaluated' = FALSE
    /\ state' = "idle"
    /\ start_of_the_chunk' = 0

\* _end() with the two file fields of the status left as they are
_end_KeepsFile ==
    /\ status' = [status EXCEPT !.nb_lines = Null]
    /\ status_line' = Null
    /\ init

\* _end(): the status fields of the run are cleared, and the runtime is reset
_end ==
    /\ status' = NoFile
    /\ status_line' = Null
    /\ init

(***************************************************************************)
(* One iteration of the while loop of _continue.                           *)
(***************************************************************************)
\* ProgramOver with the check of the pending chunk left out: the run ends at once
ProgramOver_EndsWithoutFlush ==
    /\ mode = "loop"
    /\ GreaterEq(pc, Len(program))
    /\ mode' = Leave(frames)
    /\ _end
    /\ event' = "end"
    /\ UNCHANGED <<sbp_settings, user_vars, libVars, fault>>
    /\ UNCHANGED <<program, cmd_posx, posx, status_posx, driverVars, frames,
                   root, err>>
    /\ History

\* pc >= program.length: flush what is pending, or end the run
ProgramOver ==
    /\ mode = "loop"
    /\ GreaterEq(pc, Len(program))
    /\ mode' = Leave(frames)
    /\ UNCHANGED <<program, cmd_posx, posx, status_posx, drv, frames, root, err,
                   sbp_settings, user_vars, libVars, fault>>
    /\ IF current_chunk # <<>>
       THEN /\ _dispatch
            /\ event' = "dispatch"
            /\ UNCHANGED <<pc, stack, label_index, started, sysvar_evaluated,
                           state, lineVars, status>>
       ELSE /\ _end
            /\ event' = "end"
            /\ UNCHANGED driverVars
    /\ History

\* StackBreak with _dispatch registering its expectation for an empty chunk
\* too, and waiting for it instead of calling the handler
StackBreak_ExpectsOnEmptyChunk ==
    /\ mode = "loop"
    /\ ~GreaterEq(pc, Len(program))
    /\ HasLine
    /\ _breaksStack(line)
    /\ UNCHANGED keptVars
    /\ mode' = Leave(frames)
    /\ UNCHANGED <<program, label_index, started, state, status_posx, drv,
                   frames, root, err>>
    /\ IF current_chunk # <<>>
       THEN /\ _dispatch
            /\ event' = "dispatch"
            /\ UNCHANGED <<pc, stack, sysvar_evaluated, cmd_posx, posx>>
       ELSE /\ expect' = Append(expect, "start")
            /\ event' = "dispatch"
            /\ UNCHANGED <<pc, stack, current_chunk, sysvar_evaluated,
                           cmd_posx, posx, requests, sent, queued, goal>>
    /\ History

\* the statement breaks the stack: flush the chunk, or call its handler
StackBreak ==
    /\ mode = "loop"
    /\ ~GreaterEq(pc, Len(program))
    /\ HasLine
    /\ _breaksStack(line)
    /\ UNCHANGED keptVars
    /\ UNCHANGED <<program, label_index, started, state, status_posx, drv, root>>
    /\ IF current_chunk # <<>>
       THEN /\ _dispatch
            /\ event' = "dispatch"
            /\ mode' = Leave(frames)
            /\ UNCHANGED <<pc, stack, sysvar_evaluated, cmd_posx, posx,
                           frames, err>>
       ELSE LET r == _execute(line, "continue")
            IN  /\ Len(r.requests) <= MaxRequests
                /\ sysvar_evaluated' = r.sysvar
                /\ UNCHANGED <<pc, stack, current_chunk, cmd_posx, posx,
                               expect, sent, queued, goal>>
                /\ IF r.thrown # ""
                   THEN /\ Throw(r.thrown)
                        /\ UNCHANGED requests
                   ELSE /\ requests' = r.requests
                        /\ event' = "handler"
                        /\ mode' = Leave(frames)
                        /\ UNCHANGED <<frames, err>>
    /\ History

\* the statement does not break the stack: _execute(line), and loop
Execute ==
    /\ mode = "loop"
    /\ ~GreaterEq(pc, Len(program))
    /\ HasLine
    /\ ~_breaksStack(line)
    /\ UNCHANGED lineVars
    /\ LET r == _execute(line, "undefined")
       IN  /\ r.chunk = current_chunk \/ Emitted(current_chunk) < MaxEmit
           /\ sbp_settings' = r.settings
           /\ user_vars' = IF r.thrown # "" THEN user_vars ELSE r.user_vars
           /\ UNCHANGED <<libVars, status, fault>>
           /\ Len(r.requests) <= MaxRequests
           /\ Len(r.stack) <= MaxStack
           /\ UNCHANGED <<program, label_index, started, state, status_posx,
                          expect, sent, drv, queued, goal, root>>
           /\ IF r.thrown # ""
              THEN /\ Throw(r.thrown)
                   /\ pc' = r.pc
                   /\ sysvar_evaluated' = r.sysvar
                   /\ UNCHANGED <<stack, current_chunk, cmd_posx, posx, requests>>
              ELSE /\ pc' = r.pc
                   /\ stack' = r.stack
                   /\ current_chunk' = r.chunk
                   /\ sysvar_evaluated' = r.sysvar
                   /\ cmd_posx' = r.cmd_posx
                   /\ posx' = r.posx
                   /\ requests' = r.requests
                   /\ event' = IF r.handler # "" THEN "handler" ELSE "exec"
                   /\ UNCHANGED <<mode, frames, err>>
    /\ History

\* The chunk of the model holds the first MaxEmit lines of a run.  A statement
\* that emits beyond them is executed as Execute does, with its lines left
\* out of the chunk: the loop of _continue goes on.
Saturate ==
    /\ mode = "loop"
    /\ ~GreaterEq(pc, Len(program))
    /\ HasLine
    /\ ~_breaksStack(line)
    /\ Emitted(current_chunk) >= MaxEmit
    /\ UNCHANGED lineVars
    /\ LET r == _execute(line, "undefined")
       IN  /\ r.chunk # current_chunk
           /\ r.thrown = ""
           /\ pc' = r.pc
           /\ stack' = r.stack
           /\ sysvar_evaluated' = r.sysvar
           /\ cmd_posx' = r.cmd_posx
           /\ posx' = r.posx
           /\ requests' = r.requests
           /\ sbp_settings' = r.settings
           /\ user_vars' = IF r.thrown # "" THEN user_vars ELSE r.user_vars
           /\ UNCHANGED <<libVars, status, fault>>
           /\ event' = "exec"
           /\ UNCHANGED <<program, label_index, current_chunk, started, state,
                          status_posx, expect, sent, drv, queued, goal, mode,
                          frames, root, err>>
    /\ History

\* program[pc] is undefined: _breaksStack reads cmd.type of undefined
Crash ==
    /\ mode = "loop"
    /\ ~GreaterEq(pc, Len(program))
    /\ ~HasLine
    /\ UNCHANGED keptVars
    /\ Throw("TypeError: Cannot read property 'type' of undefined")
    /\ UNCHANGED <<runtimeVars, state, status_posx, driverVars, root>>
    /\ History

\* _continue has returned into the code that called it
Unwind ==
    /\ mode = "unwind"
    /\ frames # <<>>
    /\ UNCHANGED keptVars
    /\ UNCHANGED <<program, pc, stack, label_index, current_chunk, started,
                   sysvar_evaluated, state, status_posx, driverVars, root, err>>
    /\ IF Head(frames) = "ZX.post"
       THEN \* this.cmd_posx = this.posx = 0, after callback()
            /\ cmd_posx' = Num(0)
            /\ posx' = Num(0)
            /\ frames' = Tail(frames)
            /\ mode' = Leave(Tail(frames))
            /\ event' = "zeroed"
       ELSE \* the next handler of the same state change calls _continue
            /\ Enter(Tail(frames))
            /\ event' = "callback"
            /\ UNCHANGED cmd_posx
    /\ History

(***************************************************************************)
(* The driver.  A submitted segment makes the driver report "running" and  *)
(* then "stop"; a state change fires every registered expectation once.    *)
(* The callbacks of get and set fire one at a time, in the order of the    *)
(* calls.  No event is taken while code of the runtime is running.         *)
(***************************************************************************)
\* the handlers registered for the start fire: run_function registers for "stop"
DriverRunning ==
    /\ mode = "idle"
    /\ drv = "stop"
    /\ queued > 0
    /\ UNCHANGED keptVars
    /\ drv' = "running"
    /\ expect' = [i \in 1..Len(SelectSeq(expect, LAMBDA e : e = "start")) |-> "stop"]
    /\ event' = "running"
    /\ UNCHANGED <<runtimeVars, state, status_posx, requests, sent, queued,
                   goal, mode, frames, root, err>>
    /\ History

\* the motion is over: the status is mirrored, and every handler registered
\* for "stop" calls _continue
DriverStop ==
    /\ mode = "idle"
    /\ drv = "running"
    /\ UNCHANGED keptVars
    /\ drv' = "stop"
    /\ queued' = 0
    /\ status_posx' = goal
    /\ expect' = <<>>
    /\ UNCHANGED <<program, pc, stack, label_index, current_chunk, started,
                   sysvar_evaluated, cmd_posx, state, requests, sent, goal, err>>
    /\ LET stops == SelectSeq(expect, LAMBDA e : e = "stop")
       IN  IF stops = <<>>
           THEN /\ event' = "stop"
                /\ UNCHANGED <<posx, mode, frames, root>>
           ELSE /\ Enter([i \in 1..(Len(stops) - 1) |-> "continue"])
                /\ root' = "callback"
                /\ event' = "callback"
    /\ History

\* function() {this.pc += 1; callback();}: the continuation a handler is given.
\* `fr' is the code of the handler that follows the call, `px' what the
\* handler left in this.posx
Continuation(cont, fr, px) ==
    /\ pc' = PlusOne(pc)
    /\ root' = "callback"
    /\ IF cont = "undefined"
       THEN /\ Throw("TypeError: callback is not a function")
            /\ posx' = px
       ELSE /\ Enter(fr)
            /\ event' = "callback"
            /\ UNCHANGED err

\* the callback of the oldest outstanding get or set fires, function(err,
\* value): with an error and no value when the driver `failed'.  No callback
\* reads err
Reply(failed) ==
    /\ mode = "idle"
    /\ requests # <<>>
    /\ UNCHANGED <<lineVars, sbp_settings, user_vars, libVars, status>>
    /\ fault' = IF failed THEN Head(requests).op ELSE fault
    /\ UNCHANGED <<program, stack, label_index, started, sysvar_evaluated,
                   state, status_posx, expect, sent, drv, queued, goal>>
    /\ LET q == Head(requests)
           rest == Tail(requests)
           value == IF failed THEN Undefined ELSE goal
           Then(op, key, k) ==
               /\ requests' = Append(rest, Request(op, key, k, q.cont))
               /\ event' = "reply"
               /\ UNCHANGED <<pc, current_chunk, cmd_posx, posx, mode, frames,
                              root, err>>
       IN  CASE q.k = "ZX.get" -> Then("set", "g55x", "ZX.set")
             [] q.k = "ZX.set" ->
                    /\ requests' = rest
                    /\ Continuation(q.cont, <<"ZX.post">>, posx)
                    /\ UNCHANGED <<current_chunk, cmd_posx>>
             [] q.k = "ZY.get" ->
                    /\ Emitted(current_chunk) < MaxEmit
                    /\ requests' = rest
                    /\ current_chunk' = Append(current_chunk, Gcode("G10 L2 P2 Y", value))
                    /\ Continuation(q.cont, <<>>, posx)
                    /\ UNCHANGED cmd_posx
             [] q.k = "Z2.get1" -> Then("get", "mpoy", "Z2.get2")
             [] q.k = "Z2.get2" ->
                    /\ Emitted(current_chunk) < MaxEmit
                    /\ requests' = rest
                    /\ current_chunk' = Append(current_chunk, Gcode("G10 L2 P2 X", value))
                    /\ cmd_posx' = Num(0)
                    /\ Continuation(q.cont, <<>>, Num(0))
             [] q.k = "VA.get" -> Then("set", "g55z", "VA.set")
             [] q.k = "VU.get" -> Then("set", "tr", "VU.set")
             [] q.k \in {"VA.set", "VU.set"} ->
                    /\ requests' = rest
                    /\ Continuation(q.cont, <<>>, posx)
                    /\ UNCHANGED <<current_chunk, cmd_posx>>
             [] q.k = "VU.axes" ->
                    /\ requests' = rest
                    /\ event' = "reply"
                    /\ UNCHANGED <<pc, current_chunk, cmd_posx, posx, mode,
                                   frames, root, err>>
    /\ History

DriverReply == Reply(FALSE)

\* the driver answers the oldest outstanding get or set with an error
DriverReplyError == Reply(TRUE)

\* the state the driver reports next is none a registered expectation names:
\* the handlers registered under null fire, and they only log a warning
DriverUnexpected ==
    /\ mode = "idle"
    /\ expect # <<>>
    /\ drv \in {"stop", "running"}
    /\ UNCHANGED <<lineVars, sbp_settings, user_vars, libVars, status>>
    /\ fault' = "state"
    /\ drv' = "alarm"
    /\ queued' = 0
    /\ expect' = <<>>
    /\ event' = "warn"
    /\ UNCHANGED <<runtimeVars, state, status_posx, requests, sent, goal,
                   mode, frames, root, err>>
    /\ History

\* _onG2Status(status): the driver reports `line: k' while it runs the segment
\* submitted last; the mirror stores start_of_the_chunk + k
_onG2Status(k) ==
    /\ mode = "idle"
    /\ drv = "running"
    /\ sent # <<>>
    /\ k \in 1..Len(sent[Len(sent)])
    /\ status_line' = Num(start_of_the_chunk + k)
    /\ event' = "status"
    /\ UNCHANGED <<runtimeVars, state, status_posx, driverVars, mode, frames,
                   root, err, start_of_the_chunk, chunk_begin, seg_begin,
                   sbp_settings, user_vars, libVars, status, fault, continued, resumed,
                   commanded_x, runs>>

\* an external actor sets the machine to "stopped" while the run is suspended
ExternalStop ==
    /\ mode = "idle"
    /\ state = "running"
    /\ expect # <<>> \/ requests # <<>>
    /\ UNCHANGED keptVars
    /\ state' = "stopped"
    /\ event' = "stopped"
    /\ UNCHANGED <<runtimeVars, status_posx, driverVars, mode, frames, root, err>>
    /\ History

(***************************************************************************)
(* The texts given to runString: every text of up to MaxLen lines over     *)
(* Alphabet, and the longer programs of Scenarios.                         *)
(***************************************************************************)
Alphabet ==
    {"MX,1", "ZX", "Z3", "MX,%(1)", "VU,1,1", "GOSUB A", "RETURN", "A:",
     "GOTO A", "GOTO B", "END"}

Scenarios == {
    <<"GOSUB A", "END", "A:", "MX,1", "RETURN">>,
    <<"A:", "MX,1", "GOTO A">>,
    <<"VU,1,1", "MX,1", "ZX", "ZX">>,
    <<"MX,1", "VU,1", "MX,2", "ZY">>,
    <<"MX,1", "VA,,,1", "EP,1", "ZT", "Z2">>,
    <<"undefined:", "MX,1", "IF 1 THEN ZX">>,
    <<"A:", "XX", "PAUSE 1", "PAUSE", "'note", "IF 0 THEN GOTO A", "VU">>,
    <<"MX,1", "IF 1 THEN GOTO A", "MX,2", "A:">>,
    <<"MX,1", "?">>,
    <<"toString:", "MX,1">>,
    <<"MX,1", "GOTO toString">>,
    <<"IF 1 THEN MX,1", "MX,2">>,
    <<"A:", "MX,1", "A:">>,
    <<"VS,5,3", "MX,1", "MS,2", "MX,2">>,
    <<"VS,5,3", "VS,,3", "MX,1">>,
    <<"VS,5,,,,,2", "MX,1">>,
    <<"VC,1,,,,,50", "CG,,0,0,0.3,0,,1,0,1,,,2">>,
    <<"CG,,0,0,0.3,0,,1,0,1,,,2", "ZX">>,
    <<"CG,,1,0,1,0", "MX,%(1)">>,
    <<"CG,,1,0,1,0,,1,-1,2,,,3", "MX,1">>,
    <<"CG,,1,0,1,0,,1,-1,2,,,4", "MX,1">>,
    <<"MX,1", "MX,%(9)">>,
    <<"MX,1", "MX,&a">>,
    <<"MX,1", "MX,1^2">>,
    <<"MX,1+%(1)", "ZX">>,
    <<"undefined:", "MX,1", "IF 1 THEN IF 1 THEN GOTO B">>,
    <<"MX,1", "GOSUB A", "A:", "XX", "XX,%(1)">>,
    <<"VU,1,1", "MX,1", "ZX", "MX,2", "ZX">>,
    <<"MS,2", "MX,1", "M6,1", "MH">>,
    <<"&a=2", "&b=3", "MX,&a+&b">>,
    <<"&a=2", "&b=3", "&a=&b", "MX,&a">>,
    <<"&a=2>1", "MX,&a">>,
    <<"&a=%(9)", "MX,&a">>
}

Texts == UNION {[1..n -> Alphabet] : n \in 1..MaxLen} \cup Scenarios

Next ==
    \/ event = "new" /\ \E s \in Texts : RunString(s)
    \/ ProgramOver
    \/ StackBreak
    \/ Execute
    \/ Crash
    \/ Unwind
    \/ DriverRunning
    \/ DriverStop
    \/ DriverReply
    \/ ExternalStop
    \/ \E k \in 1..MaxEmit : _onG2Status(k)

Spec == Init /\ [][Next]_vars

(***************************************************************************)
(* The engine under the scheduling the code relies on: an activation runs  *)
(* to completion, and the driver answers every segment and every request.  *)
(***************************************************************************)
FairSpec ==
    /\ Spec
    /\ WF_vars(ProgramOver \/ StackBreak \/ Execute \/ Crash \/ Unwind)
    /\ WF_vars(DriverRunning)
    /\ WF_vars(DriverStop)
    /\ WF_vars(DriverReply)

(***************************************************************************)
(* The engine with the loop of _continue followed beyond the lines the     *)
(* chunk of the model holds, for runs that never leave the loop.           *)
(***************************************************************************)
LoopNext == Next \/ Saturate

LoopSpec == Init /\ [][LoopNext]_vars

FairLoopSpec ==
    /\ LoopSpec
    /\ WF_vars(ProgramOver \/ StackBreak \/ Execute \/ Saturate \/ Crash \/ Unwind)
    /\ WF_vars(DriverRunning)
    /\ WF_vars(DriverStop)
    /\ WF_vars(DriverReply)

(***************************************************************************)
(* The engine with a driver that can fail: a get or a set answered with an *)
(* error, a state change that no expectation names.                        *)
(***************************************************************************)
FaultNext == Next \/ DriverReplyError \/ DriverUnexpected

FaultSpec == Init /\ [][FaultNext]_vars

(***************************************************************************)
(* A program is run after another: runString is called again once the     *)
(* activation of the run before has returned, the driver is at rest and    *)
(* nothing it was asked is unanswered.                                     *)
(***************************************************************************)
MaxRuns == 2

ReTexts == {<<"MX,1">>, <<"GOSUB A", "A:", "ZX">>}

RunAgain ==
    /\ runs >= 1
    /\ runs < MaxRuns
    /\ requests = <<>>
    /\ expect = <<>>
    /\ drv = "stop"
    /\ queued = 0
    /\ \E s \in ReTexts : RunString(s)

RerunNext == Next \/ RunAgain

RerunSpec == Init /\ [][RerunNext]_vars

(***************************************************************************)
(* The transformation library (src/runtime/opensbp/transformation.js):     *)
(* translate is applied to a point and then applied again with the         *)
(* offsets negated.                                                        *)
(***************************************************************************)
\* PtNew.X = PtNew.X + MDistX, when MDistX !== 0 && PtNew.X
Moved(coord, dist) ==
    IF dist # 0 /\ Truthy(coord) THEN Num(coord.v + dist) ELSE coord

translate(P, MDistX, MDistY, MDistZ) ==
    Point(Moved(P.X, MDistX), Moved(P.Y, MDistY), Moved(P.Z, MDistZ))

Coords == {Undefined} \cup {Num(n) : n \in -MaxCoord..MaxCoord}

TransformInit ==
    /\ Constructed
    /\ PtNew \in {Point(x, y, z) : x \in Coords, y \in Coords, z \in Coords}
    /\ \E a \in -MaxCoord..MaxCoord, b \in -MaxCoord..MaxCoord,
          c \in -MaxCoord..MaxCoord :
            transformed = [P |-> PtNew, MDist |-> <<a, b, c>>, calls |-> 0]
    /\ Unconnected
    /\ stream = NoStream

\* translate(PtNew, a, b, c)
Translate ==
    /\ transformed.calls = 0
    /\ PtNew' = translate(PtNew, transformed.MDist[1], transformed.MDist[2],
                          transformed.MDist[3])
    /\ transformed' = [transformed EXCEPT !.calls = 1]
    /\ UNCHANGED <<runtimeVars, state, status_posx, driverVars, mode, frames,
                   root, err, event, lineVars, chunk_begin, seg_begin,
                   sbp_settings, user_vars, status, fault, continued, resumed,
                   commanded_x, runs, mirrorVars, cr, stream>>

\* translate(PtNew, -a, -b, -c)
TranslateBack ==
    /\ transformed.calls = 1
    /\ PtNew' = translate(PtNew, -transformed.MDist[1], -transformed.MDist[2],
                          -transformed.MDist[3])
    /\ transformed' = [transformed EXCEPT !.calls = 2]
    /\ UNCHANGED <<runtimeVars, state, status_posx, driverVars, mode, frames,
                   root, err, event, lineVars, chunk_begin, seg_begin,
                   sbp_settings, user_vars, status, fault, continued, resumed,
                   commanded_x, runs, mirrorVars, cr, stream>>

TransformNext == Translate \/ TranslateBack

TransformSpec == TransformInit /\ [][TransformNext]_vars

(***************************************************************************)
(* The status mirror, key by key: the machine connects one runtime at a    *)
(* time, the connected runtime subscribes a handler to the driver's        *)
(* 'status' event, and the driver calls every subscribed handler with the  *)
(* payload of each event.                                                  *)
(***************************************************************************)
MaxConnects == 3
MaxEvents == 2

\* the keys a status payload of the driver may carry; vel is no key of the
\* local record
PayloadKeys == {"line", "posx", "vel"}
Payloads == UNION {[K -> 1..2] : K \in SUBSET PayloadKeys}

\* obj[key] = value, for a record kept as a function of its keys
SetKey(obj, key, value) ==
    [k \in DOMAIN obj \cup {key} |-> IF k = key THEN value ELSE obj[k]]

\* SBPRuntime.prototype._onG2Status: no call of machine.emit
SBPRuntime_onG2Status(st, payload) ==
    [key \in DOMAIN st |->
        IF key \in DOMAIN payload
        THEN IF key = "line"
             THEN Num(start_of_the_chunk + payload[key])
             ELSE Num(payload[key])
        ELSE st[key]]

\* ManualRuntime.prototype._onG2Status, before its machine.emit
ManualRuntime_onG2Status(st, payload) ==
    [key \in DOMAIN st |->
        IF key \in DOMAIN payload THEN Num(payload[key]) ELSE st[key]]

\* connect(machine) of either runtime: this.driver.on('status', handler)
Connect(rt) ==
    /\ runtime = "none"
    /\ Len(listeners) < MaxConnects
    /\ runtime' = rt
    /\ listeners' = Append(listeners, rt)
    /\ machine_status' =
          IF rt = "sbp"
          THEN SetKey(SetKey(machine_status, "line", Null), "nb_lines", Null)
          ELSE machine_status
    /\ UNCHANGED <<runtimeVars, state, status_posx, driverVars, mode, frames,
                   root, err, event, lineVars, chunk_begin, seg_begin,
                   sbp_settings, user_vars, status, fault, continued, resumed,
                   commanded_x, runs, PtNew, transformed, published, cr,
                   stream>>

\* the last occurrence of handler h leaves the list
RECURSIVE RemoveListener(_, _)
RemoveListener(ls, h) ==
    IF ls = <<>> THEN <<>>
    ELSE IF ls[Len(ls)] = h THEN SubSeq(ls, 1, Len(ls) - 1)
    ELSE Append(RemoveListener(SubSeq(ls, 1, Len(ls) - 1), h), ls[Len(ls)])

\* disconnect() of either runtime. SBPRuntime calls
\* removeListener(this.status_handler): the handler stands where the event
\* name belongs, no handler is given, and no listener of 'status' leaves.
\* ManualRuntime calls removeListener('status', this.status_handler).
Disconnect(rt) ==
    /\ runtime = rt
    /\ runtime' = "none"
    /\ listeners' =
          IF rt = "sbp" THEN listeners ELSE RemoveListener(listeners, rt)
    /\ UNCHANGED <<runtimeVars, state, status_posx, driverVars, mode, frames,
                   root, err, event, lineVars, chunk_begin, seg_begin,
                   sbp_settings, user_vars, status, fault, continued, resumed,
                   commanded_x, runs, PtNew, transformed, machine_status,
                   published, cr, stream>>

\* the driver calls the listeners of 'status' in the order they subscribed
RECURSIVE Deliver(_, _, _, _)
Deliver(ls, st, pub, payload) ==
    IF ls = <<>> THEN [status |-> st, published |-> pub]
    ELSE IF Head(ls) = "sbp"
         THEN Deliver(Tail(ls), SBPRuntime_onG2Status(st, payload), pub,
                      payload)
         ELSE LET merged == ManualRuntime_onG2Status(st, payload)
              IN  Deliver(Tail(ls), merged, Append(pub, merged), payload)

\* driver.emit('status', payload)
StatusEvent(payload) ==
    /\ Len(published) < MaxEvents
    /\ LET r == Deliver(listeners, machine_status, published, payload)
       IN  /\ machine_status' = r.status
           /\ published' = r.published
    /\ UNCHANGED <<runtimeVars, state, status_posx, driverVars, mode, frames,
                   root, err, event, lineVars, chunk_begin, seg_begin,
                   sbp_settings, user_vars, status, fault, continued, resumed,
                   commanded_x, runs, PtNew, transformed, listeners, runtime,
                   cr, stream>>

MirrorNext ==
    \/ \E rt \in {"sbp", "manual"} : Connect(rt)
    \/ \E rt \in {"sbp", "manual"} : Disconnect(rt)
    \/ \E payload \in Payloads : StatusEvent(payload)

MirrorSpec == Init /\ [][MirrorNext]_vars

(***************************************************************************)
(* The CR handler (cut a rectangle), loop by loop: the repetitions i, the  *)
(* pocket steps j of a repetition, the four sides k of a pass and the      *)
(* do-while around them.  Lengths are whole numbers, the step-over is in   *)
(* thousandths.  The settings are those VC has stored.                     *)
(***************************************************************************)
MaxSide == 2
MaxPasses == 9

Infinity == [t |-> "inf", v |-> 0]

\* what does not belong to the activation of CR or to the settings
restVars ==
    <<runtimeVars, state, status_posx, driverVars, mode, frames, root, err,
      event, lineVars, chunk_begin, seg_begin, user_vars, status, fault,
      continued, resumed, commanded_x, runs, PtNew, transformed, mirrorVars,
      stream>>

\* the arguments VC is given: cutter diameter args[0] and overlap args[5]
VC_Args(cutterDia, pocketOverlap) ==
    [n \in 1..12 |->
        Value(IF n = 1 THEN cutterDia
              ELSE IF n = 6 THEN pocketOverlap ELSE Undefined, FALSE)]

\* VC,<cutterDia>,,,,,<pocketOverlap> before CR is called
CR_VC(cutterDia, pocketOverlap) ==
    /\ cr.phase = "idle"
    /\ sbp_settings' = VC(VC_Args(cutterDia, pocketOverlap))
    /\ UNCHANGED <<restVars, cr>>

\* a / b as JavaScript divides two numbers that are not negative
Quotient(a, b) ==
    IF b # 0 THEN Num(a \div b) ELSE IF a = 0 THEN NaN ELSE Infinity

\* Math.floor(x) + 1
FloorPlusOne(x) == IF x.t = "num" THEN Num(x.v + 1) ELSE x

\* steps: Math.floor((Math.abs(len)/2)/Math.abs(stepOver)) + 1 for the
\* shorter side when optCR > 1, and the initial 1.0 otherwise
CR_Steps(lenX, lenY, optCR) ==
    IF optCR > 1
    THEN FloorPlusOne(Quotient(1000 * (IF lenX < lenY THEN lenX ELSE lenY),
                               2 * StepOver(sbp_settings)))
    ELSE Num(1)

\* j < steps
Less(j, steps) ==
    CASE steps.t = "num" -> j < steps.v
      [] steps.t = "inf" -> TRUE
      [] OTHER -> FALSE

\* CR(args) up to its loop over the repetitions: i = 0
CR_Call(lenX, lenY, optCR, reps, spiralPlg) ==
    /\ cr.phase = "idle"
    /\ cr' = [NoCall EXCEPT !.phase = "rep", !.lenX = lenX, !.lenY = lenY,
                            !.optCR = optCR, !.reps = reps,
                            !.spiralPlg = spiralPlg,
                            !.stepOver = IF optCR > 1
                                         THEN StepOver(sbp_settings) ELSE 0,
                            !.steps = CR_Steps(lenX, lenY, optCR)]
    /\ UNCHANGED <<restVars, sbp_settings>>

\* for (i = 0; i < reps; i++): the test, and pass = cnt = 0; j = 0
CR_Rep ==
    /\ cr.phase = "rep"
    /\ cr' = IF cr.i < cr.reps
             THEN [cr EXCEPT !.phase = "step", !.pass = 0, !.cnt = 0,
                             !.j = 0, !.passes = 0]
             ELSE [cr EXCEPT !.phase = "returned"]
    /\ UNCHANGED <<restVars, sbp_settings>>

\* for (j = 0; j < steps; j++): the test; past it, the end of the repetition
\* and i++
CR_Step ==
    /\ cr.phase = "step"
    /\ cr' = IF Less(cr.j, cr.steps)
             THEN [cr EXCEPT !.phase = "side", !.k = 0]
             ELSE [cr EXCEPT !.phase = "rep", !.i = @ + 1]
    /\ UNCHANGED <<restVars, sbp_settings>>

\* one side of the rectangle: case order[k], of which the last is case 4,
\* and after it the test of do ... while (cnt < 1)
CR_Side ==
    /\ cr.phase = "side"
    /\ LET spiral == cr.k = 3 /\ cr.spiralPlg = 1 /\ cr.pass = 0
           cnt == IF cr.k < 3 THEN cr.cnt
                  ELSE IF spiral
                       THEN (IF cr.i + 1 < cr.reps THEN 1 ELSE cr.cnt)
                       ELSE 1
       IN  cr' = [cr EXCEPT
                     !.pass = IF spiral THEN 1 ELSE @,
                     !.cnt = cnt,
                     !.k = IF cr.k < 3 THEN @ + 1 ELSE 0,
                     !.phase = IF cr.k = 3 /\ cnt >= 1 THEN "stepover"
                               ELSE "side"]
    /\ UNCHANGED <<restVars, sbp_settings>>

\* the end of a pass: the move to the next step of the pocket, and j++.  The
\* model counts the passes of a repetition up to MaxPasses.
CR_StepOver ==
    /\ cr.phase = "stepover"
    /\ cr' = [cr EXCEPT !.phase = "step",
                        !.j = IF @ < MaxPasses THEN @ + 1 ELSE @,
                        !.passes = IF @ < MaxPasses THEN @ + 1 ELSE @]
    /\ UNCHANGED <<restVars, sbp_settings>>

CR_Running == CR_Rep \/ CR_Step \/ CR_Side \/ CR_StepOver

CRNext ==
    \/ \E cutterDia \in {Undefined, Num(0), Num(1)},
          pocketOverlap \in {Undefined, Num(50), Num(100)} :
            CR_VC(cutterDia, pocketOverlap)
    \/ \E lenX \in {0, MaxSide}, lenY \in {1, MaxSide}, optCR \in {0, 2, 3},
          reps \in 1..2, spiralPlg \in 0..1 :
            CR_Call(lenX, lenY, optCR, reps, spiralPlg)
    \/ CR_Rep
    \/ CR_Step
    \/ CR_Side
    \/ CR_StepOver

CRSpec == Init /\ [][CRNext]_vars

\* the handler runs on once it is called
FairCRSpec == CRSpec /\ WF_vars(CR_Running)

(***************************************************************************)
(* The streaming Parser (src/runtime/opensbp/parser.js).  A text is a      *)
(* sequence of pieces of text, a piece being a line feed or a part of a    *)
(* line; it is written to the stream chunk by chunk, a chunk being any     *)
(* number of its pieces, and the stream is flushed after the last chunk.   *)
(***************************************************************************)
MaxText == 2

LF == "\n"

\* the lines a text is made of, each in the pieces a chunk may end between
StreamLines == {<<"MX", ",1">>, <<"Z", "X">>, <<"?">>}

RECURSIVE Flat(_)
Flat(ls) == IF ls = <<>> THEN <<>> ELSE Head(ls) \o <<LF>> \o Flat(Tail(ls))

\* the texts: every line ends in a line feed, the last one need not
StreamTexts ==
    LET whole == {Flat(ls) : ls \in UNION {[1..n -> StreamLines] :
                                               n \in 1..MaxText}}
    IN  whole \cup {SubSeq(t, 1, Len(t) - 1) : t \in whole}

\* the string the pieces spell
RECURSIVE Join(_)
Join(pieces) == IF pieces = <<>> THEN "" ELSE Head(pieces) \o Join(Tail(pieces))

\* the loop of _transform over str from position i on, the line at hand
\* beginning at start: what it has pushed, the scrap it leaves, and whether
\* parseLine threw (the assignment of this.scrap is then not reached)
RECURSIVE Scan(_, _, _, _)
Scan(str, start, i, out) ==
    IF i > Len(str)
    THEN [out |-> out, scrap |-> SubSeq(str, start, Len(str)),
          thrown |-> FALSE]
    ELSE IF str[i] = LF
         THEN LET obj == parseLine(Join(SubSeq(str, start, i - 1)))
              IN  IF obj = SyntaxError
                  THEN [out |-> out, scrap |-> <<>>, thrown |-> TRUE]
                  ELSE Scan(str, i + 1, i + 1, Append(out, obj))
         ELSE Scan(str, start, i + 1, out)

\* Parser.prototype._transform(chunk, enc, cb) on a stream st
Transformed(st, chunk) ==
    LET r == Scan(st.scrap \o chunk, 1, 1, st.out)
    IN  [st EXCEPT !.out = r.out,
                   !.scrap = IF r.thrown THEN @ ELSE r.scrap]

\* Parser.prototype._flush(done) on a stream st: an exception of parseLine
\* leaves the function before the scrap is cleared
Flushed(st) ==
    LET obj == parseLine(Join(st.scrap))
    IN  IF st.scrap = <<>> THEN [st EXCEPT !.phase = "ended"]
        ELSE IF obj = SyntaxError
             THEN [st EXCEPT !.phase = "ended", !.failed = TRUE]
             ELSE [st EXCEPT !.phase = "ended", !.out = Append(@, obj),
                             !.scrap = <<>>]

StreamInit ==
    /\ Constructed
    /\ PtNew = Point(Undefined, Undefined, Undefined)
    /\ transformed = [P |-> PtNew, MDist |-> <<0, 0, 0>>, calls |-> 0]
    /\ Unconnected
    /\ \E t \in StreamTexts : stream = [NoStream EXCEPT !.text = t, !.rest = t]

streamless ==
    <<runtimeVars, state, status_posx, driverVars, mode, frames, root, err,
      event, lineVars, chunk_begin, seg_begin, sbp_settings, user_vars, status,
      fault, continued, resumed, commanded_x, runs, PtNew, transformed,
      mirrorVars, cr>>

\* the next n pieces of the text arrive as one chunk
_transform(n) ==
    /\ stream.phase = "open"
    /\ n <= Len(stream.rest)
    /\ stream' = [Transformed(stream, SubSeq(stream.rest, 1, n)) EXCEPT
                     !.rest = SubSeq(stream.rest, n + 1, Len(stream.rest))]
    /\ UNCHANGED streamless

\* the source has ended
_flush ==
    /\ stream.phase = "open"
    /\ stream.rest = <<>>
    /\ stream' = Flushed(stream)
    /\ UNCHANGED streamless

StreamNext ==
    \/ \E n \in 1..(3 * MaxText) : _transform(n)
    \/ _flush

StreamSpec == StreamInit /\ [][StreamNext]_vars

(***************************************************************************)
(* Properties.                                                             *)
(***************************************************************************)
\* the loop of _continue is about to fetch program[pc]
AtLine == mode = "loop" /\ ~GreaterEq(pc, Len(program)) /\ HasLine

\* every submitted segment has run to its stop
DriverAtRest == drv = "stop" /\ queued = 0

\* C1: when the handler of a stack-breaking statement is invoked (it then
\* issues its first driver get/set), every G-code line appended before has
\* been handed to the driver and the driver has reported the stop of every
\* submitted segment.
C1_FlushBeforeHandler ==
    (event = "handler" /\ HasLine /\ _breaksStack(line))
        => (current_chunk = <<>> /\ DriverAtRest)

\* C2: pc is an integer with 0 <= pc <= N in every reachable state.
C2_PcInRange == pc.t = "num" /\ 0 <= pc.v /\ pc.v <= Len(program)

\* C3: Gosub at index i pushes the return address i+1 and sets pc to the
\* label's index; Return with a non-empty stack sets pc to the address on top.
C3_GosubReturn ==
    [][/\ (AtLine /\ line.type = "gosub") =>
            /\ pc' = Num(label_index[line.label])
            /\ stack' = Append(stack, Num(pc.v + 1))
       /\ (AtLine /\ line.type = "return" /\ stack # <<>>) =>
            /\ pc' = Top(stack)
            /\ stack' = Pop(stack)]_vars

\* C4: Return with an empty stack raises a runtime error; it assigns nothing
\* to pc and execution does not continue.
C4_ReturnError ==
    [][(AtLine /\ line.type = "return" /\ stack = <<>>) =>
            (pc' = pc /\ err' # "" /\ mode' = "idle")]_vars

\* the expressions _execute evaluates for a statement
Evaluated(stmt) ==
    CASE stmt.type = "cmd" ->
            {stmt.args[i] : i \in (1..ParamCount(stmt.cmd)) \cap DOMAIN stmt.args}
      [] stmt.type = "cond" -> {stmt.cmp}
      [] stmt.type = "pause" /\ "expr" \in DOMAIN stmt -> {stmt.expr}
      [] OTHER -> {}

\* C5: a statement that reads a system variable is classified as
\* stack-breaking when the engine reaches it.
C5_SysvarBreaks ==
    (AtLine /\ \E e \in Evaluated(line) : e.k = "sys") => _breaksStack(line)

ZeroProbeValues ==
    {"ZX", "ZY", "ZZ", "ZA", "ZB", "ZC", "Z2", "Z3", "Z4", "Z5", "Z6", "ZT",
     "EP", "VA", "VU"}

\* C6: every Zero command, EP, VA and VU is classified as stack-breaking
\* when the engine reaches it.
C6_ZeroBreaks ==
    (AtLine /\ line.type = "cmd" /\ line.cmd \in ZeroProbeValues)
        => _breaksStack(line)

\* C7: once the machine is set to stopped, the engine executes nothing more:
\* pc does not change, no G-code is appended and no segment is sent.
C7_StopAborts ==
    [][state = "stopped" =>
            /\ pc' = pc
            /\ sent' = sent
            /\ Len(current_chunk') <= Len(current_chunk)]_vars

\* C8: once pc >= N is found at the head of the loop, the run ends: the
\* machine becomes idle with the chunk empty, and _end never drops a pending
\* line (the chunk was flushed before).
C8_Terminates ==
    /\ (mode = "loop" /\ GreaterEq(pc, Len(program)))
            ~> (state = "idle" /\ ~started /\ current_chunk = <<>>)
    /\ [][event' = "end" => current_chunk = <<>>]_vars

\* C8 witness: a run that ended after its last chunk was flushed
C8_Witness ==
    /\ event = "end"
    /\ state = "idle"
    /\ sent # <<>>
    /\ DriverAtRest

\* C9: after a runtime error the machine is idle and the chunk is empty.
C9_ErrorResets ==
    event = "throw" => (state = "idle" /\ current_chunk = <<>>)

\* C10: when parsing or analysis fails, execution does not start and the
\* program and the label table are what they were before the call.
C10_NothingLoaded ==
    [][event' \in {"parse error", "analysis error"} =>
            /\ program' = program
            /\ label_index' = label_index
            /\ state' = state
            /\ sent' = sent
            /\ mode' = "idle"]_vars

\* the Label statements of a program
LabelsAt(prog) == {i \in 1..Len(prog) : prog[i].type = "label"}

\* the run has just been analysed by runString
Analysed == event \in {"run", "analysis error"}

\* C11: the label pass fails if and only if two Label statements carry the
\* same name, and on success the label table maps exactly the program's
\* label names, each to the index of its statement.
C11_LabelPass ==
    [][Analysed' =>
        LET dup == \E i, j \in LabelsAt(program') :
                       i # j /\ program'[i].value = program'[j].value
        IN  /\ (err' = "Duplicate label.") <=> dup
            /\ ~dup =>
                 /\ DOMAIN label_index' = {program'[i].value : i \in LabelsAt(program')}
                 /\ \A i \in LabelsAt(program') :
                        label_index'[program'[i].value] = i - 1]_vars

\* the statement whose label the reference pass has to resolve
BranchOf(stmt) ==
    IF stmt.type = "cond" /\ stmt.stmt.type \in {"goto", "gosub"}
    THEN stmt.stmt ELSE stmt

\* C12: the reference pass fails exactly when a Goto or Gosub, at top level
\* or as the then-branch of a Cond, names a label no Label statement
\* defines; a Cond whose then-branch is a command does not make it fail.
C12_ReferencePass ==
    [][(Analysed' /\ err' # "Duplicate label.") =>
        LET names == {program'[i].value : i \in LabelsAt(program')}
            missing == \E i \in 1..Len(program') :
                          /\ BranchOf(program'[i]).type \in {"goto", "gosub"}
                          /\ BranchOf(program'[i]).label \notin names
        IN  (err' = "Undefined label") <=> missing]_vars

\* the statement _execute ends up executing: the then-branch of a Cond whose
\* test is true, through every nesting
RECURSIVE Taken(_)
Taken(stmt) ==
    IF stmt.type = "cond" /\ Truthy(_eval(stmt.cmp).value)
    THEN Taken(stmt.stmt) ELSE stmt

\* C13: in a run of a program that passed analysis, every Goto or Gosub that
\* is executed, directly or through Cond, names a label of the label table,
\* and the runtime error "Unknown Label" is never raised.
C13_LabelsResolve ==
    /\ err # "Runtime Error: Unknown Label"
    /\ (AtLine /\ Taken(line).type \in {"goto", "gosub"})
            => Taken(line).label \in DOMAIN label_index

\* every G-code line emitted so far, in the order of the calls of emit_gcode
\* as far as the driver and the chunk hold them
Held == Lines(sent) \o current_chunk

IsPrefix(a, b) == Len(a) <= Len(b) /\ SubSeq(b, 1, Len(a)) = a

\* C14: the segments handed to runSegment, concatenated, are the emitted
\* lines up to the last flush in the order they were emitted: a step only
\* appends lines after those held, a flush hands over the whole chunk as one
\* segment and leaves the chunk empty, and nothing else changes the segments.
C14_FlushKeepsOrder ==
    [][/\ IsPrefix(Held, Lines(sent') \o current_chunk')
       /\ sent' # sent =>
            /\ sent' = Append(sent, current_chunk)
            /\ current_chunk # <<>>
            /\ current_chunk' = <<>>
       /\ sent' = sent => IsPrefix(current_chunk, current_chunk')]_vars

\* C14 witness: a second segment has just been flushed after the first
C14_Witness ==
    /\ event = "dispatch"
    /\ Len(sent) >= 2
    /\ current_chunk = <<>>
    /\ Len(Lines(sent)) >= 2

\* C15: a stack-breaking statement reached with an empty chunk registers no
\* state-change expectation and has its handler invoked in the same step
\* (the handler issues its first driver call); and an expectation is only
\* ever registered while a submitted segment is still to be run.
C15_NoExpectOnEmptyChunk ==
    /\ [][(AtLine /\ _breaksStack(line) /\ current_chunk = <<>>) =>
            /\ expect' = expect
            /\ sent' = sent
            /\ event' = "handler"
            /\ Len(requests') > Len(requests)]_vars
    /\ [](expect # <<>> => (queued > 0 \/ drv = "running"))

\* C15 witness: the handler of a breaking statement was invoked with nothing
\* submitted and nothing expected
C15_Witness ==
    /\ event = "handler"
    /\ HasLine /\ _breaksStack(line)
    /\ sent = <<>>
    /\ expect = <<>>
    /\ requests # <<>>

\* the program `label; MX,1; GOTO label'
LoopProgram == parse(<<"A:", "MX,1", "GOTO A">>)

\* C16: in the program that loops through Goto over non-breaking statements
\* only, the G-code appended to the chunk is eventually handed to the driver.
C16_LoopIsFlushed ==
    (program = LoopProgram /\ current_chunk # <<>>) ~> (sent # <<>>)

\* C17: when the driver reports line k while it runs a segment, the mirrored
\* line is (program index at which that segment's chunk began) + k, and
\* start_of_the_chunk is that index while the segment runs.
C17_LineMirror ==
    /\ [][\A k \in 1..MaxEmit :
            _onG2Status(k) => status_line' = Num(seg_begin.v + k)]_vars
    /\ [](drv = "running" => start_of_the_chunk = seg_begin.v)

\* an expression the evaluator has to reject: an unknown system variable, a
\* user variable never assigned, an operator it does not support
RECURSIVE Faulty(_)
Faulty(e) ==
    CASE e.k = "sys"  -> evaluateSystemVariable(e.n) = Null
      [] e.k = "user" -> evaluateUserVariable(VarName(e)) = Null
      [] e.k = "op"   -> e.op # "+" \/ Faulty(e.left) \/ Faulty(e.right)
      [] OTHER        -> FALSE

\* C18: a statement that evaluates such an expression ends in an error; no
\* G-code line is emitted from the value.
C18_EvalErrors ==
    [][(/\ AtLine
        /\ event' \in {"exec", "handler", "throw"}
        /\ \E e \in Evaluated(line) \cup Evaluated(Taken(line)) : Faulty(e))
            => (event' = "throw" /\ current_chunk' = current_chunk)]_vars

\* the command the engine is about to execute, "" for any other statement
CmdAt == IF AtLine /\ Taken(line).type = "cmd" THEN Taken(line).cmd ELSE ""

\* the value of argument 0 of that command as written in the program
Arg0 ==
    IF Taken(line).args = <<>> THEN Undefined
    ELSE _eval(Taken(line).args[1]).value

\* C19: VS with argument 0 = v0 makes v0 the XY move speed, only VS and MS
\* change that speed, and every MX emits a G1 line whose feed is 60 times
\* the speed in force: after VS,v0 every MX emits F = 60 * v0 until the
\* next VS or MS.
C19_FeedFollowsVS ==
    [][/\ (CmdAt = "VS" /\ Arg0 # Undefined)
            => sbp_settings'.movexy_speed = Arg0
       /\ (CmdAt = "MX" /\ event' = "exec")
            => /\ Len(current_chunk') = Len(current_chunk) + 1
               /\ current_chunk'[Len(current_chunk')] =
                      GcodeF("G1 X", Arg0, Times60(sbp_settings.movexy_speed))
       /\ sbp_settings'.movexy_speed # sbp_settings.movexy_speed
            => (CmdAt \in {"VS", "MS"} /\ sbp_settings'.movexy_speed = Arg0)]_vars

\* C19 witness: after VS,5,3 an MX has emitted a line with F300
C19_Witness ==
    /\ event = "exec"
    /\ sbp_settings.movexy_speed = Num(5)
    /\ sbp_settings.movexy_speed # DefaultSettings.movexy_speed
    /\ current_chunk # <<>>
    /\ current_chunk[Len(current_chunk)] = GcodeF("G1 X", Num(1), Num(300))

\* C20: CG with option 2 computes its pocket passes with the step-over
\* cutterDia * (1 - pocketOverlap / 100) of the settings in force when it is
\* reached (those a preceding VC has set).
C20_PocketStepOver ==
    [][(/\ CmdAt = "CG"
        /\ Arg(_evaluateArguments("CG", Taken(line).args), 11) = Num(2))
            => current_chunk' = current_chunk \o
                   CG_Lines(_evaluateArguments("CG", Taken(line).args),
                            sbp_settings)]_vars

\* C21: for every point with X, Y and Z present and all offsets a, b, c,
\* translating by (a, b, c) and then by (-a, -b, -c) gives the point back.
C21_TranslateInverse ==
    (/\ transformed.calls = 2
     /\ \A k \in {"X", "Y", "Z"} : transformed.P[k] # Undefined)
        => PtNew = transformed.P

\* C22: when a run ends cleanly the machine state is idle, status.filename,
\* current_file, nb_lines and line are null, and the runtime is reset: pc = 0,
\* empty return stack, empty label table, empty chunk, started = false.
C22_CleanEnd ==
    event = "end" =>
        /\ state = "idle"
        /\ status = NoFile
        /\ status_line = Null
        /\ pc = Num(0)
        /\ stack = <<>>
        /\ label_index = NoLabels
        /\ current_chunk = <<>>
        /\ ~started

\* a run that returned from a subroutine and moved the tool has ended
C22_Witness ==
    /\ event = "end"
    /\ program = parse(<<"GOSUB A", "END", "A:", "MX,1", "RETURN">>)
    /\ Len(sent) = 1

\* C23: a Gosub makes the return stack one deeper, a Return executed with a
\* non-empty stack makes it one shallower, and no other statement changes
\* the stack.
C23_StackDepth ==
    [][AtLine =>
        IF Taken(line).type = "gosub"
        THEN Len(stack') = Len(stack) + 1
        ELSE IF Taken(line).type = "return" /\ stack # <<>>
        THEN Len(stack') = Len(stack) - 1
        ELSE stack' = stack]_vars

\* a Return has popped the address a Gosub pushed, and the stack is empty again
C23_Witness ==
    /\ event = "exec"
    /\ pc.t = "arr"
    /\ stack = <<>>
    /\ \E i \in DOMAIN program : program[i].type = "gosub"

\* C24: a failure of the driver is never swallowed: when the callback of a
\* get or set is given an error, or the state change after a submitted
\* segment is not an expected one, the engine reports an error and leaves
\* the running state.
C24_DriverFailureReported ==
    [][fault' # fault => (err' # "" /\ state' # "running")]_vars

C26_SuspendedUntilContinuation ==
    [][/\ (mode = "loop" /\ event' = "handler") =>
            /\ mode' # "loop"
            /\ pc' = pc
            /\ \A i \in DOMAIN requests' : requests'[i].cont # "undefined"
       /\ (mode = "idle" /\ requests # <<>> /\ pc' # pc) =>
            /\ event' = "callback"
            /\ Len(requests') < Len(requests)]_vars

\* C27: every breaking handler (ZX, ZY, ZZ, ZA, ZB, ZC, Z2, VA, VU), whatever
\* arguments are given or left out, invokes its continuation exactly once:
\* never a second time, and once the driver has answered its calls.
C27_ContinuationOnce ==
    /\ [](continued <= 1)
    /\ [](event = "handler" => <>(continued = 1))

\* C28: after a non-empty chunk is flushed the engine resumes exactly once
\* for that flush, and only after the driver reported a start state and then
\* "stop": never more resumes than flushes, a resume only through a handler
\* that a reported start registered for "stop", and every flush resumed.
C28_ResumeOncePerFlush ==
    /\ [](resumed <= Len(sent))
    /\ [][(mode = "idle" /\ resumed' > resumed) =>
              (drv = "running" /\ \E i \in DOMAIN expect : expect[i] = "stop")]_vars
    /\ \A n \in 1..MaxEmit : (Len(sent) = n) ~> (resumed >= n)

C30_CmdPosFollowsStatements ==
    AtLine => cmd_posx = commanded_x

\* C31: every G1 line a move command emits carries a feed F of 60 times the
\* move speed configured for its axes when the line is emitted.
C31_MoveFeed ==
    [][(CmdAt \in {"MX", "M6", "MH"} /\ event' = "exec") =>
        /\ Len(current_chunk') = Len(current_chunk) + 1
        /\ current_chunk'[Len(current_chunk')].op = "G1 X"
        /\ current_chunk'[Len(current_chunk')].f =
               Times60(sbp_settings.movexy_speed)]_vars

\* what this step does is what _continue does for `stmt' when it is the
\* statement at pc: a flush or the handler with its continuation for a stack
\* break, and _execute(stmt) otherwise
SameAsStatement(stmt) ==
    IF _breaksStack(stmt)
    THEN /\ pc' = pc
         /\ mode' # "loop"
         /\ IF current_chunk # <<>>
            THEN sent' = Append(sent, current_chunk) /\ current_chunk' = <<>>
            ELSE /\ requests' = _execute(stmt, "continue").requests
                 /\ UNCHANGED <<sent, current_chunk>>
    ELSE LET r == _execute(stmt, "undefined")
         IN  IF r.thrown # "" THEN err' = r.thrown
             ELSE /\ pc' = r.pc
                  /\ stack' = r.stack
                  /\ current_chunk' = r.chunk
                  /\ cmd_posx' = r.cmd_posx
                  /\ sbp_settings' = r.settings
                  /\ requests' = r.requests

\* C32: a Cond whose test is false advances pc by exactly 1 and changes
\* nothing else; a Cond whose test is true has exactly the effect on pc,
\* stack, chunk and variables that its then-statement has when it is
\* executed at the same pc.
C32_CondIsItsThenStatement ==
    [][(AtLine /\ line.type = "cond" /\ _eval(line.cmp).thrown = "") =>
        IF Truthy(_eval(line.cmp).value)
        THEN SameAsStatement(line.stmt)
        ELSE /\ pc' = Num(pc.v + 1)
             /\ UNCHANGED <<stack, current_chunk, cmd_posx, sbp_settings,
                            requests, sent, expect>>]_vars

\* the leaf that reads the user variable `name'
LeafOf(name) == IF name = "&a" THEN UserVar ELSE UserVarB

\* C33: after &name is assigned an expression with value v, every later
\* evaluation of &name yields v until &name is assigned again; an assignment
\* to another name does not change it; and an expression that combines user
\* variables evaluates to the arithmetic result (&a+&b is 5 after &a=2, &b=3).
C33_UserVariables ==
    /\ [](\A name \in DOMAIN user_vars :
             user_vars[name] # Undefined
                 => _eval(LeafOf(name)).value = user_vars[name])
    /\ [][IF AtLine /\ line.type = "assign" /\ event' = "exec"
          THEN /\ user_vars'[line.var] = _eval(line.expr).value
               /\ \A name \in DOMAIN user_vars \ {line.var} :
                      user_vars'[name] = user_vars[name]
          ELSE user_vars' = user_vars]_vars
    /\ [][(/\ AtLine /\ line = Cmd("MX", <<BinOp("+", UserVar, UserVarB)>>)
           /\ DOMAIN user_vars = {"&a", "&b"}
           /\ user_vars["&a"].t = "num" /\ user_vars["&b"].t = "num")
             => /\ event' = "exec"
                /\ current_chunk'[Len(current_chunk')].arg =
                       Num(user_vars["&a"].v + user_vars["&b"].v)]_vars

\* executing the statement reads a system variable successfully
RECURSIVE Reads(_)
Reads(stmt) ==
    CASE stmt.type = "cmd" ->
            /\ HandlerLength(stmt.cmd) > 0
            /\ \E i \in (1..ParamCount(stmt.cmd)) \cap DOMAIN stmt.args :
                   _eval(stmt.args[i]).sys
      [] stmt.type = "cond" ->
            \/ _eval(stmt.cmp).sys
            \/ Truthy(_eval(stmt.cmp).value) /\ Reads(stmt.stmt)
      [] stmt.type = "pause" /\ "expr" \in DOMAIN stmt -> _eval(stmt.expr).sys
      [] stmt.type = "assign" -> _eval(stmt.expr).sys
      [] OTHER -> FALSE

\* C34: after the expressions of a statement have been evaluated,
\* sysvar_evaluated is true if and only if that evaluation read a system
\* variable: a successful read sets it, and a later statement that reads no
\* system variable does not report an access.
C34_SysvarFlag ==
    [][(AtLine /\ event' \in {"exec", "handler"}) =>
            (sysvar_evaluated' <=> Reads(line))]_vars

\* the last record given to the observers
LastPublished == published[Len(published)]

\* C35: every driver status event that arrives while a runtime is connected
\* copies into the local status record exactly the keys the record already
\* has (line counted from the start of the chunk), adds no key, and then
\* gives the merged record to the observers with machine.emit('status', ...)
C35_MirrorPublishes ==
    [][\A payload \in Payloads :
          (StatusEvent(payload) /\ runtime # "none") =>
              /\ DOMAIN machine_status' = DOMAIN machine_status
              /\ \A key \in DOMAIN machine_status :
                    machine_status'[key] =
                        IF key \notin DOMAIN payload THEN machine_status[key]
                        ELSE IF key = "line" /\ runtime = "sbp"
                             THEN Num(start_of_the_chunk + payload[key])
                             ELSE Num(payload[key])
              /\ Len(published') > Len(published)
              /\ published'[Len(published')] = machine_status']_vars

\* how many times handler h is subscribed
Subscribed(h) == Cardinality({i \in 1..Len(listeners) : listeners[i] = h})

\* C36: a disconnected SBPRuntime has no handler subscribed to the driver's
\* 'status' event, and a connected one has exactly one, however often it was
\* connected and disconnected before
C36_OneHandler ==
    Subscribed("sbp") = IF runtime = "sbp" THEN 1 ELSE 0

\* the evaluated arguments of the CG the loop is about to execute
CG_Args == _evaluateArguments("CG", Taken(line).args)

IsArc(g) == g.op \in {"G2 X", "G3 X"}

\* the arcs among the lines the step appends to the chunk
NewArcs ==
    SelectSeq(SubSeq(current_chunk', Len(current_chunk) + 1,
                     Len(current_chunk')), IsArc)

\* C37: CG with option 4 and a plunge depth other than zero does the passes
\* of option 3 (every arc of a repetition carries a Z word, one plunge depth
\* below the arc before it) and then one more arc without a Z word.
C37_SpiralThenBottom ==
    [][(/\ CmdAt = "CG"
        /\ event' = "exec"
        /\ Arg(CG_Args, 11) = Num(4)
        /\ OrElse(Arg(CG_Args, 7), Num(0)) # Num(0))
            => LET reps == OrElse(Arg(CG_Args, 8), Num(1)).v
                   Plg == Arg(CG_Args, 7).v
               IN  /\ Len(NewArcs) = reps + 1
                   /\ \A i \in 1..reps :
                         /\ "z" \in DOMAIN NewArcs[i]
                         /\ NewArcs[i].z = Num(i * Plg)
                   /\ "z" \notin DOMAIN NewArcs[reps + 1]]_vars

\* floor((min(lenX, lenY) / 2) / stepOver) + 1 for a pocket, else 1
CR_Passes ==
    IF cr.optCR > 1
    THEN (1000 * (IF cr.lenX < cr.lenY THEN cr.lenX ELSE cr.lenY))
            \div (2 * cr.stepOver) + 1
    ELSE 1

\* C38: whatever the arguments and whatever settings VC has stored
\* (pocketOverlap = 100 and cutterDia = 0 included), a call of CR returns,
\* and each of its repetitions makes floor((min(lenX, lenY) / 2) / stepOver)
\* + 1 passes with a pocket option and one pass without.
C38_CRTerminates ==
    /\ [](cr.phase # "idle" => <>(cr.phase = "returned"))
    /\ []((cr.phase = "rep" /\ cr.i > 0 /\ (cr.optCR > 1 => cr.stepOver # 0))
            => cr.passes = CR_Passes)

RECURSIVE LinesOf(_, _)
LinesOf(text, from) ==
    IF from > Len(text) THEN <<>>
    ELSE LET ends == {i \in from..Len(text) : text[i] = LF}
             to == IF ends = {} THEN Len(text) + 1
                   ELSE CHOOSE i \in ends : \A e \in ends : i <= e
         IN  <<Join(SubSeq(text, from, to - 1))>> \o LinesOf(text, to + 1)

\* what the stream emits when the whole text arrives as one chunk
OneChunk(text) ==
    Flushed(Transformed([NoStream EXCEPT !.text = text], text)).out

\* C40: the statements the streaming Parser has emitted when it ends are
\* the same however the text was split into chunks: they are the statements
\* it emits for the text in one chunk, and for a text whose lines all parse
\* they are one statement per line in the order of the lines, the last line
\* without a line feed included.
C40_ChunkingInvisible ==
    stream.phase = "ended" =>
        /\ stream.out = OneChunk(stream.text)
        /\ ~ParseThrows(LinesOf(stream.text, 1))
              => stream.out = parse(LinesOf(stream.text, 1))
====
